---- MODULE Spec2Model ----
(***************************************************************************)
(* A model of the per-node connection subsystem of twilight-andesite:      *)
(* src/src/node.rs (Node, Connection, reconnect, backoff) and the message  *)
(* model of src/src/model.rs.                                              *)
(*                                                                         *)
(* One worker (Connection::run) owns the socket, the receive half of the   *)
(* outgoing queue, the send half of the subscriber channel and one half of *)
(* the BiLock that guards the statistics.  Callers hold Node handles.      *)
(***************************************************************************)
EXTENDS Integers, Sequences, FiniteSets, TLC

(***************************************************************************)
(* Bounds of the model.                                                    *)
(***************************************************************************)
\* commands accepted by the queue in the command-path specification
MaxCmds == 3
\* frames read from the socket in the full specification
MaxFrames == 2
\* connections established (the first one and the reconnects)
MaxConns == 2
\* snapshot reads started by callers in the statistics specification
\* inbound frames that may wait in the socket at once
MaxBacklog == 2

\* Node handles and raw senders the callers may hold at once
MaxHandles == 2
MaxSenders == 1

MaxReads == 2

(***************************************************************************)
(* Program constants.                                                      *)
(***************************************************************************)
\* backoff: let mut seconds = 1
InitialSeconds == 1
\* backoff: if seconds > 64
MaxSeconds == 64

\* Option<T>: None is the empty set, Some(v) the singleton
None == {}
Some(v) == {v}

Guilds == {1, 2}

(***************************************************************************)
(* Outgoing events (model.rs, mod outgoing), built by their constructors.  *)
(***************************************************************************)
PlayNew(g, track) ==
    [variant |-> "Play", op |-> "Play", guild_id |-> g, track |-> track,
     start_time |-> None, end_time |-> None, no_replace |-> FALSE]

StopNew(g) == [variant |-> "Stop", op |-> "Stop", guild_id |-> g]

UpdateNew(g, pause, position, volume, filters) ==
    [variant |-> "Update", op |-> "Update", guild_id |-> g, pause |-> pause,
     position |-> position, volume |-> volume, filters |-> filters]

DestroyNew(g) == [variant |-> "Destroy", op |-> "Destroy", guild_id |-> g]

VoiceUpdateNew(g, session_id, event) ==
    [variant |-> "VoiceUpdate", op |-> "VoiceUpdate",
     session_id |-> session_id, guild_id |-> g, event |-> event]

GetPlayerNew(g) == [variant |-> "GetPlayer", op |-> "GetPlayer", guild_id |-> g]

\* the commands callers enqueue in this model
CmdInputs ==
    {PlayNew(1, "trk"), StopNew(1),
     UpdateNew(1, Some(TRUE), None, Some(50), None), DestroyNew(1)}

\* the values of Opcode
Opcodes ==
    {"VoiceUpdate", "GetPlayer", "Play", "Stop", "Update", "Destroy",
     "PlayerUpdate", "Event", "Stats"}

\* an OutgoingEvent of every variant and guild, built by its constructor
OutgoingBuilt ==
    UNION {{VoiceUpdateNew(g, "sess", [endpoint |-> "e", token |-> "t"]),
            GetPlayerNew(g), PlayNew(g, "trk"), StopNew(g),
            UpdateNew(g, Some(TRUE), None, Some(50), None), DestroyNew(g)}
           : g \in Guilds}

\* the payload structs have public fields: the same events with any opcode
\* stored in the op field, as a struct literal builds them
OutgoingLiterals ==
    {[ev EXCEPT !.op = op] : ev \in OutgoingBuilt, op \in Opcodes}

\* OutgoingEvent::op
OutgoingOp(ev) == ev.op

\* a guild_id() that answers the default id
OutgoingGuildIdDefault(ev) == 0

\* OutgoingEvent::guild_id
OutgoingGuildId(ev) == ev.guild_id

\* serde names of the opcodes (rename_all = "camelCase", get-player renamed)
OpcodeName(op) ==
    CASE op = "VoiceUpdate" -> "voiceUpdate"
      [] op = "GetPlayer" -> "get-player"
      [] op = "Play" -> "play"
      [] op = "Stop" -> "stop"
      [] op = "Update" -> "update"
      [] op = "Destroy" -> "destroy"
      [] op = "PlayerUpdate" -> "playerUpdate"
      [] op = "Event" -> "event"
      [] op = "Stats" -> "stats"

\* A JSON object is a function from its keys to their values.
EmptyObj == [k \in {} |-> k]

\* an Option field that is skipped when it is None
SkipNone(k, o) == IF o = None THEN EmptyObj ELSE k :> (CHOOSE v \in o : TRUE)

\* serde_json::to_string(&outgoing) for the untagged OutgoingEvent
ToJson(ev) ==
    CASE ev.variant = "VoiceUpdate" ->
            ("op" :> OpcodeName(ev.op)) @@ ("sessionId" :> ev.session_id)
            @@ ("guildId" :> ev.guild_id) @@ ("event" :> ev.event)
      [] ev.variant = "Play" ->
            ("op" :> OpcodeName(ev.op)) @@ ("guildId" :> ev.guild_id)
            @@ ("track" :> ev.track)
            @@ SkipNone("startTime", ev.start_time)
            @@ SkipNone("endTime", ev.end_time)
            @@ ("noReplace" :> ev.no_replace)
      [] ev.variant = "Update" ->
            ("op" :> OpcodeName(ev.op)) @@ ("guildId" :> ev.guild_id)
            @@ SkipNone("pause", ev.pause)
            @@ SkipNone("position", ev.position)
            @@ SkipNone("volume", ev.volume)
            @@ SkipNone("filters", ev.filters)
      [] OTHER ->
            ("op" :> OpcodeName(ev.op)) @@ ("guildId" :> ev.guild_id)

\* Resume.timeout of the configuration
ResumeTimeout == 30
\* reconnect: json!({"op": "event-buffer", "timeout": resume.timeout})
EventBuffer == ("op" :> "event-buffer") @@ ("timeout" :> ResumeTimeout)

(***************************************************************************)
(* Incoming events (model.rs, mod incoming).                               *)
(***************************************************************************)
\* Filters::new(..) with every filter absent, and with a timescale
FiltersNone ==
    [karaoke |-> None, timescale |-> None, tremolo |-> None,
     vibrato |-> None, equalizer |-> None, volume |-> None]
FiltersTimescale ==
    [karaoke |-> None,
     timescale |-> Some([speed |-> 2, pitch |-> 1, rate |-> 1,
                         enabled |-> FALSE]),
     tremolo |-> None, vibrato |-> None, equalizer |-> None, volume |-> None]

\* the JSON form of Filters (skip_serializing_none, volume skipped)
FiltersJson(f) ==
    SkipNone("karaoke", f.karaoke)
    @@ (IF f.timescale = None THEN EmptyObj
        ELSE LET t == CHOOSE v \in f.timescale : TRUE
             IN  "timescale" :> [speed |-> t.speed, pitch |-> t.pitch,
                                 rate |-> t.rate])
    @@ SkipNone("tremolo", f.tremolo)
    @@ SkipNone("vibrato", f.vibrato)
    @@ SkipNone("equalizer", f.equalizer)

\* Deserialize for Filters: absent members are None, skipped fields default
FiltersFromJson(o) ==
    [karaoke |-> IF "karaoke" \in DOMAIN o THEN Some(o["karaoke"]) ELSE None,
     timescale |->
        IF "timescale" \in DOMAIN o
        THEN Some([speed |-> o["timescale"].speed,
                   pitch |-> o["timescale"].pitch,
                   rate |-> o["timescale"].rate, enabled |-> FALSE])
        ELSE None,
     tremolo |-> IF "tremolo" \in DOMAIN o THEN Some(o["tremolo"]) ELSE None,
     vibrato |-> IF "vibrato" \in DOMAIN o THEN Some(o["vibrato"]) ELSE None,
     equalizer |->
        IF "equalizer" \in DOMAIN o THEN Some(o["equalizer"]) ELSE None,
     volume |-> None]

\* the text frames a server sends for player updates: the state object with
\* or without position and destroyed
StateJson(time, position, paused, volume, filters, destroyed) ==
    ("time" :> time) @@ SkipNone("position", position)
    @@ ("paused" :> paused) @@ ("volume" :> volume)
    @@ ("filters" :> FiltersJson(filters))
    @@ SkipNone("destroyed", destroyed)

\* two states that differ in every field
StateA(destroyed) ==
    StateJson(10, Some(5), FALSE, 100, FiltersNone, destroyed)
StateB(destroyed) ==
    StateJson(20, None, TRUE, 50, FiltersTimescale, destroyed)

PlayerUpdateFrames ==
    {[op |-> "playerUpdate", guildId |-> 1, state |-> StateA(None)],
     [op |-> "playerUpdate", guildId |-> 1, state |-> StateB(None)],
     [op |-> "playerUpdate", guildId |-> 2, state |-> StateA(Some(FALSE))],
     [op |-> "playerUpdate", guildId |-> 1, state |-> StateB(Some(TRUE))]}

\* statistics frames: two reports that differ in every field
StatsFrames ==
    {[op |-> "stats", players |-> 3, playingPlayers |-> 2, uptime |-> 100,
      memory |-> [allocated |-> 8, free |-> 4, reservable |-> 16, used |-> 4],
      cpu |-> [cores |-> 4, lavalinkLoad |-> 1, systemLoad |-> 1],
      frameStats |-> [sent |-> 3000, nulled |-> 10, deficit |-> 20]],
     [op |-> "stats", players |-> 5, playingPlayers |-> 1, uptime |-> 200,
      memory |-> [allocated |-> 9, free |-> 5, reservable |-> 17, used |-> 5],
      cpu |-> [cores |-> 8, lavalinkLoad |-> 0, systemLoad |-> 0]]}

\* lifecycle frames, one of each type
EventFrames ==
    {[op |-> "event", type |-> "TrackStartEvent", guildId |-> 1,
      track |-> "trk"],
     [op |-> "event", type |-> "TrackEndEvent", guildId |-> 1,
      track |-> "trk", reason |-> "FINISHED"],
     [op |-> "event", type |-> "TrackExceptionEvent", guildId |-> 1,
      track |-> "trk", error |-> "boom",
      exception |-> [class |-> "E", message |-> "boom"]],
     [op |-> "event", type |-> "TrackStuckEvent", guildId |-> 1,
      track |-> "trk", thresholdMs |-> 1000],
     [op |-> "event", type |-> "WebSocketClosedEvent", guildId |-> 1,
      reason |-> "gone", code |-> 4006, byRemote |-> TRUE]}

PlayerDestroyFrames ==
    {[op |-> "event", type |-> "PlayerDestroyedEvent", guildId |-> 1,
      cleanup |-> FALSE]}

\* a text frame that is no event
BadFrames == {[hello |-> "world"]}

\* every text frame of the model
TextFrames ==
    PlayerUpdateFrames \cup StatsFrames \cup EventFrames
    \cup PlayerDestroyFrames \cup BadFrames

\* the text frames the server sends to the running worker
ServerFrames ==
    PlayerUpdateFrames \cup StatsFrames \cup PlayerDestroyFrames
    \cup BadFrames
    \cup {f \in EventFrames :
            f["type"] \in {"TrackStartEvent", "WebSocketClosedEvent"}}

\* the opcodes and track event types serde accepts, with their variants
OpcodeOf(name) ==
    CASE name = "voiceUpdate" -> "VoiceUpdate"
      [] name = "get-player" -> "GetPlayer"
      [] name = "play" -> "Play"
      [] name = "stop" -> "Stop"
      [] name = "update" -> "Update"
      [] name = "destroy" -> "Destroy"
      [] name = "playerUpdate" -> "PlayerUpdate"
      [] name = "event" -> "Event"
      [] name = "stats" -> "Stats"

OpcodeNames ==
    {"voiceUpdate", "get-player", "play", "stop", "update", "destroy",
     "playerUpdate", "event", "stats"}

TrackEventTypeOf(name) ==
    CASE name = "TrackStartEvent" -> "Start"
      [] name = "TrackEndEvent" -> "End"
      [] name = "TrackExceptionEvent" -> "Exception"
      [] name = "TrackStuckEvent" -> "Stuck"
      [] name = "WebSocketClosedEvent" -> "WebsocketClose"
      [] name = "PlayerDestroyedEvent" -> "PlayerDestroy"

TrackEventTypeNames ==
    {"TrackStartEvent", "TrackEndEvent", "TrackExceptionEvent",
     "TrackStuckEvent", "WebSocketClosedEvent", "PlayerDestroyedEvent"}

\* an optional member of a JSON object
Opt(o, k) == IF k \in DOMAIN o THEN Some(o[k]) ELSE None

\* the members every struct with an op needs
HasOp(o) == "op" \in DOMAIN o /\ o["op"] \in OpcodeNames
HasKind(o) == "type" \in DOMAIN o /\ o["type"] \in TrackEventTypeNames

\* serde_json::from_str::<IncomingEvent>: the untagged enum takes the first
\* variant, in declaration order, whose struct the object deserialises to;
\* members a struct does not know are ignored
FromJson(o) ==
    IF HasOp(o) /\ {"guildId", "state"} \subseteq DOMAIN o
    THEN [variant |-> "PlayerUpdate", op |-> OpcodeOf(o["op"]),
          guild_id |-> o["guildId"], user_id |-> None,
          state |-> [time |-> o["state"]["time"],
                     position |-> Opt(o["state"], "position"),
                     paused |-> o["state"]["paused"],
                     volume |-> o["state"]["volume"],
                     filters |-> FiltersFromJson(o["state"]["filters"]),
                     destroyed |-> Opt(o["state"], "destroyed"),
                     mixer |-> None, mixer_enabled |-> None,
                     frame |-> None]]
    ELSE IF HasOp(o) /\ {"players", "playingPlayers", "uptime", "memory",
                         "cpu"} \subseteq DOMAIN o
    THEN [variant |-> "Stats", op |-> OpcodeOf(o["op"]),
          players |-> o["players"],
          playing_players |-> o["playingPlayers"],
          uptime |-> o["uptime"],
          memory |-> o["memory"],
          cpu |-> [cores |-> o["cpu"].cores,
                   lavalink_load |-> o["cpu"].lavalinkLoad,
                   system_load |-> o["cpu"].systemLoad],
          frames |-> Opt(o, "frameStats")]
    ELSE IF HasOp(o) /\ HasKind(o)
            /\ {"guildId", "track", "reason"} \subseteq DOMAIN o
    THEN [variant |-> "TrackEnd", op |-> OpcodeOf(o["op"]),
          kind |-> TrackEventTypeOf(o["type"]), guild_id |-> o["guildId"],
          user_id |-> None, track |-> o["track"], reason |-> o["reason"]]
    ELSE IF HasOp(o) /\ HasKind(o) /\ {"guildId", "track"} \subseteq DOMAIN o
    THEN [variant |-> "TrackStart", op |-> OpcodeOf(o["op"]),
          kind |-> TrackEventTypeOf(o["type"]), guild_id |-> o["guildId"],
          user_id |-> None, track |-> o["track"]]
    ELSE IF HasOp(o) /\ HasKind(o)
            /\ {"guildId", "track", "error", "exception"} \subseteq DOMAIN o
    THEN [variant |-> "TrackException", op |-> OpcodeOf(o["op"]),
          kind |-> TrackEventTypeOf(o["type"]), guild_id |-> o["guildId"],
          user_id |-> None, track |-> o["track"], error |-> o["error"],
          exception |-> o["exception"]]
    ELSE IF HasOp(o) /\ HasKind(o)
            /\ {"guildId", "track", "thresholdMs"} \subseteq DOMAIN o
    THEN [variant |-> "TrackStuck", op |-> OpcodeOf(o["op"]),
          kind |-> TrackEventTypeOf(o["type"]), guild_id |-> o["guildId"],
          user_id |-> None, track |-> o["track"],
          threshold_ms |-> o["thresholdMs"]]
    ELSE IF HasOp(o) /\ HasKind(o)
            /\ {"guildId", "code", "byRemote"} \subseteq DOMAIN o
    THEN [variant |-> "WebsocketClose", op |-> OpcodeOf(o["op"]),
          kind |-> TrackEventTypeOf(o["type"]), guild_id |-> o["guildId"],
          user_id |-> None, reason |-> Opt(o, "reason"), code |-> o["code"],
          by_remote |-> o["byRemote"]]
    ELSE IF HasOp(o) /\ HasKind(o) /\ {"guildId", "cleanup"} \subseteq DOMAIN o
    THEN [variant |-> "PlayerDestroy", op |-> OpcodeOf(o["op"]),
          kind |-> TrackEventTypeOf(o["type"]), guild_id |-> o["guildId"],
          user_id |-> None, cleanup |-> o["cleanup"]]
    ELSE [variant |-> "Err"]

\* serde_json::from_str::<OutgoingEvent>: the derived Deserialize of the
\* untagged enum, first match in declaration order
OutgoingFromJson(o) ==
    IF HasOp(o) /\ {"sessionId", "guildId", "event"} \subseteq DOMAIN o
    THEN [variant |-> "VoiceUpdate", op |-> OpcodeOf(o["op"]),
          session_id |-> o["sessionId"], guild_id |-> o["guildId"],
          event |-> o["event"]]
    ELSE IF HasOp(o) /\ "guildId" \in DOMAIN o
    THEN [variant |-> "GetPlayer", op |-> OpcodeOf(o["op"]),
          guild_id |-> o["guildId"]]
    ELSE IF HasOp(o) /\ {"guildId", "track", "noReplace"} \subseteq DOMAIN o
    THEN [variant |-> "Play", op |-> OpcodeOf(o["op"]),
          guild_id |-> o["guildId"], track |-> o["track"],
          start_time |-> Opt(o, "startTime"), end_time |-> Opt(o, "endTime"),
          no_replace |-> o["noReplace"]]
    ELSE IF HasOp(o) /\ "guildId" \in DOMAIN o
    THEN [variant |-> "Stop", op |-> OpcodeOf(o["op"]),
          guild_id |-> o["guildId"]]
    ELSE IF HasOp(o) /\ "guildId" \in DOMAIN o
    THEN [variant |-> "Update", op |-> OpcodeOf(o["op"]),
          guild_id |-> o["guildId"], pause |-> Opt(o, "pause"),
          position |-> Opt(o, "position"), volume |-> Opt(o, "volume"),
          filters |-> Opt(o, "filters")]
    ELSE IF HasOp(o) /\ "guildId" \in DOMAIN o
    THEN [variant |-> "Destroy", op |-> OpcodeOf(o["op"]),
          guild_id |-> o["guildId"]]
    ELSE [variant |-> "Err"]

\* GuildId::default()
GuildIdDefault == 0

\* IncomingEvent::guild_id
IncomingGuildId(ev) ==
    IF ev.variant = "Stats" THEN GuildIdDefault ELSE ev.guild_id

\* IncomingEvent values: what the text frames decode to, and a
\* TrackException and a TrackStuck built as struct literals
IncomingInputs ==
    {FromJson(f) : f \in TextFrames \ BadFrames}
    \cup {[variant |-> "TrackException", op |-> "Event", kind |-> "Exception",
           guild_id |-> 2, user_id |-> None, track |-> "trk",
           error |-> "boom", exception |-> [class |-> "E", message |-> "boom"]],
          [variant |-> "TrackStuck", op |-> "Event", kind |-> "Stuck",
           guild_id |-> 2, user_id |-> None, track |-> "trk",
           threshold_ms |-> 1000]}

\* Node::connect: the initial contents of the BiLock
ZeroStats ==
    [variant |-> "Stats", op |-> "Stats", players |-> 0,
     playing_players |-> 0, uptime |-> 0,
     memory |-> [allocated |-> 0, free |-> 0, reservable |-> 0, used |-> 0],
     cpu |-> [cores |-> 0, lavalink_load |-> 0, system_load |-> 0],
     frames |-> None]

\* the fields of Stats, in the two parts a copy moves one after the other
StatsPart1 == {"variant", "op", "players", "playing_players", "uptime"}
StatsPart2 == {"memory", "cpu", "frames"}

\* dst with the fields of part taken from src
CopyPart(dst, src, part) ==
    [f \in DOMAIN dst |-> IF f \in part THEN src[f] ELSE dst[f]]

\* a Stats frame of an idle host whose frame statistics are all zero
IdleStatsFrames ==
    {[op |-> "stats", players |-> 4, playingPlayers |-> 3, uptime |-> 300,
      memory |-> [allocated |-> 7, free |-> 3, reservable |-> 15, used |-> 3],
      cpu |-> [cores |-> 2, lavalinkLoad |-> 0, systemLoad |-> 0],
      frameStats |-> [sent |-> 0, nulled |-> 0, deficit |-> 0]]}

\* Node::penalty, the f64 terms truncated by `as i32`, at the loads and the
\* frame counts the Stats frames of this model carry:
\* 1.05^(100 * system_load) * 10 - 10
CpuPenalty(system_load) ==
    CASE system_load = 0 -> 0
      [] system_load = 1 -> 1305

\* 1.03^(500 * deficit / 3000) * 300 - 300
DeficitPenalty(deficit) ==
    CASE deficit = 0 -> 0
      [] deficit = 20 -> 31

\* (1.03^(500 * nulled / 3000) * 300 - 300) * 2
NullPenalty(nulled) ==
    CASE nulled = 0 -> 0
      [] nulled = 10 -> 30

\* frames.as_ref().map_or(0, |f| ..)
MapOr(default, opt, field) ==
    IF opt = None THEN default ELSE (CHOOSE f \in opt : TRUE)[field]

\* a penalty that leaves the playing sessions out
PenaltyOfLoadOnly(s) ==
    CpuPenalty(s.cpu.system_load)
    + DeficitPenalty(MapOr(0, s.frames, "deficit"))
    + NullPenalty(MapOr(0, s.frames, "nulled"))

\* Node::penalty on the locked statistics; the counts of this model are
\* below 2^31, where `as i32` keeps them
Penalty(s) ==
    s.playing_players
    + CpuPenalty(s.cpu.system_load)
    + DeficitPenalty(MapOr(0, s.frames, "deficit"))
    + NullPenalty(MapOr(0, s.frames, "nulled"))

(***************************************************************************)
(* The session store (PlayerManager), a map from guild id to player.       *)
(***************************************************************************)
\* Player::new(guild_id, node): a fresh player bound to this node
PlayerNew(g) ==
    [guild_id |-> g, node |-> "this", time |-> 0, position |-> None,
     paused |-> FALSE, volume |-> 100, filters |-> FiltersNone]

\* a removal that empties the store
PlayersRemoveAll(ps, g) == [h \in DOMAIN ps |-> None]

\* PlayerManager::remove
PlayersRemove(ps, g) == [ps EXCEPT ![g] = None]

\* PlayerManager::get_mut, else PlayerManager::get_or_insert
PlayersGetOrInsert(ps, g) ==
    IF ps[g] /= None THEN CHOOSE p \in ps[g] : TRUE ELSE PlayerNew(g)

\* a sync that writes to a session only if the store has it
ProvidePlayerUpdateOnlyExisting(ps, update) ==
    IF update.state.destroyed = Some(TRUE) \/ ps[update.guild_id] = None
    THEN ps
    ELSE LET player == PlayersGetOrInsert(ps, update.guild_id)
         IN  [ps EXCEPT ![update.guild_id] =
                Some([player EXCEPT !.time = update.state.time,
                                    !.position = update.state.position,
                                    !.paused = update.state.paused,
                                    !.volume = update.state.volume,
                                    !.filters = update.state.filters])]

\* a sync that leaves the cached volume as it is
ProvidePlayerUpdateKeepsVolume(ps, update) ==
    IF update.state.destroyed = Some(TRUE)
    THEN ps
    ELSE LET player == PlayersGetOrInsert(ps, update.guild_id)
         IN  [ps EXCEPT ![update.guild_id] =
                Some([player EXCEPT !.time = update.state.time,
                                    !.position = update.state.position,
                                    !.paused = update.state.paused,
                                    !.filters = update.state.filters])]

\* a sync that does not look at the destroyed mark
ProvidePlayerUpdateIgnoresDestroyed(ps, update) ==
    LET player == PlayersGetOrInsert(ps, update.guild_id)
    IN  [ps EXCEPT ![update.guild_id] =
           Some([player EXCEPT !.time = update.state.time,
                               !.position = update.state.position,
                               !.paused = update.state.paused,
                               !.volume = update.state.volume,
                               !.filters = update.state.filters])]

\* a sync that adds the reported time to the cached time
ProvidePlayerUpdateAddsTime(ps, update) ==
    IF update.state.destroyed = Some(TRUE)
    THEN ps
    ELSE LET player == PlayersGetOrInsert(ps, update.guild_id)
         IN  [ps EXCEPT ![update.guild_id] =
                Some([player EXCEPT !.time = (player.time + update.state.time)
                                             % 1000,
                                    !.position = update.state.position,
                                    !.paused = update.state.paused,
                                    !.volume = update.state.volume,
                                    !.filters = update.state.filters])]

\* Node::provide_player_update
ProvidePlayerUpdate(ps, update) ==
    IF update.state.destroyed = Some(TRUE)
    THEN ps
    ELSE LET player == PlayersGetOrInsert(ps, update.guild_id)
         IN  [ps EXCEPT ![update.guild_id] =
                Some([player EXCEPT !.time = update.state.time,
                                    !.position = update.state.position,
                                    !.paused = update.state.paused,
                                    !.volume = update.state.volume,
                                    !.filters = update.state.filters])]

VARIABLES
    pc,         \* where the connect call / the worker is
    seconds,    \* backoff: the local `seconds`
    waits,      \* the waits slept in the current (or last) backoff run
    attempts,   \* the outcomes of that run's connection attempts
    result,     \* how Node::connect failed or Connection::run ended
    resume,     \* NodeConfig.resume is Some(..)
    sock,       \* the websocket: "none", "up", "closing"
    conns,      \* connections established so far
    wire,       \* text frames written to sockets, in order
    queue,      \* the outgoing queue (to_lavalink -> node_from)
    txClosed,   \* the outgoing queue was closed from the sender side
    accepted,   \* commands unbounded_send has accepted, in order
    calls,      \* calls of Node::send made so far
    lastSend,   \* what the last Node::send returned
    players,    \* the session store: guild id -> Option<Player>
    stats,      \* the Stats inside the BiLock
    lock,       \* who holds the BiLock: "free", "worker" or a reader
    cur,        \* the Stats event the worker is storing, if any
    received,   \* the text, ping and other frames read so far, in order
    forwarded,  \* the events sent to the subscriber channel, in order
    subOpen,    \* the subscriber's receive half is alive
    rpc,        \* per reader: "idle" or "copy"
    seen,       \* per reader: the copy of the statistics it is taking/took
    reads,      \* snapshot reads started so far
    lim,        \* the environment's budget
    reported,   \* the andesite-connection-id header of the first response
    connection_id, \* NodeRef.connection_id
    resume_id,  \* NodeConfig.resume's connection_id
    header,     \* the Andesite-Resume-Id header of the last handshake
    call,       \* the last call of an accessor or a codec, and its result
    ctl,        \* the sends of control frames on the socket in use, in order
    backlog,    \* inbound frames that wait in the socket behind the next one
    handles,    \* Node handles the callers hold
    senders     \* raw senders (Node::sender) the callers hold

connVars == <<pc, seconds, waits, attempts, result, resume, sock, conns>>
cmdVars == <<wire, queue, txClosed, accepted, calls, lastSend>>

routerVars == <<players, stats, lock, cur, received, forwarded, subOpen,
                rpc, seen, reads>>

\* what Node::connect fixes: the budget, the configuration, the node's id
cfgVars == <<lim, reported, connection_id, resume_id>>

envVars == <<cfgVars, header, call, ctl>>

\* what the callers own
ownVars == <<handles, senders>>

vars == <<connVars, cmdVars, routerVars, envVars, backlog, ownVars>>

\* the callers that read the statistics
Readers == {"r1", "r2"}

\* Node::connect: the id the server reported plus one, or zero
ConnectionId(id) == IF id = None THEN 0 ELSE (CHOOSE v \in id : TRUE) + 1

\* connect_request: the Andesite-Resume-Id header, when a resume policy with
\* a connection id is configured
ConnectRequest == IF resume THEN resume_id ELSE None

(***************************************************************************)
(* The state before Node::connect has attempted a connection.              *)
(***************************************************************************)
InitCommon ==
    /\ connection_id = ConnectionId(reported)
    /\ header = None
    /\ call = None
    /\ ctl = <<>>
    /\ backlog = 0
    /\ handles = 1
    /\ senders = 0
    /\ pc = "connect"
    /\ seconds = InitialSeconds
    /\ waits = <<>>
    /\ attempts = <<>>
    /\ result = "none"
    /\ resume \in BOOLEAN
    /\ sock = "none"
    /\ conns = 0
    /\ wire = <<>>
    /\ queue = <<>>
    /\ txClosed = FALSE
    /\ accepted = <<>>
    /\ calls = 0
    /\ lastSend = "none"
    /\ players = [g \in Guilds |-> None]
    /\ stats = ZeroStats
    /\ lock = "free"
    /\ cur = None
    /\ received = <<>>
    /\ forwarded = <<>>
    /\ subOpen = TRUE
    /\ rpc = [r \in Readers |-> "idle"]
    /\ seen = [r \in Readers |-> None]
    /\ reads = 0

\* the Node handle exists once Node::connect has returned Ok
NodeExists == conns >= 1

\* the worker task runs (it is spawned when the first connection is made)
WorkerAlive ==
    pc \in {"run", "pending", "reconnect", "stats_lock", "stats_write"}

\* a worker that holds no Node
LiveSendersOfCallers == (IF handles > 0 THEN 1 ELSE 0) + senders

\* the senders of the outgoing queue that are alive: the one in NodeRef,
\* which lives while the worker (run's `node` argument) or a caller holds a
\* Node, and the raw senders of the callers
LiveSenders == (IF WorkerAlive \/ handles > 0 THEN 1 ELSE 0) + senders

\* a caller still has the means to send
CanSend == handles > 0 \/ senders > 0

\* a queue that outlives the worker
ChanOpenAfterEnd == ~txClosed

\* the outgoing queue accepts messages: the receive half lives in the
\* worker's Connection, and no sender has closed the channel
ChanOpen == WorkerAlive /\ ~txClosed

\* the worker or the connect call ends: the Connection is dropped, and with
\* it the socket and the receive half of the outgoing queue
End(res) ==
    /\ pc' = "done"
    /\ result' = res
    /\ sock' = "none"
    /\ queue' = <<>>

\* connection.next() yields a frame: the frame enters the log of frames read
\* (while the log is kept, the server sends no more frames than it holds)
Logged(frame) ==
    IF lim.log
    THEN /\ Len(received) < lim.frames
         /\ received' = Append(received, frame)
    ELSE received' = received

\* the frame just read was the first of those waiting, if any waited
Taken == backlog' = IF backlog > 0 THEN backlog - 1 ELSE backlog

\* future::select(from_lavalink, to_lavalink) polls connection.next() first
\* and node_from.next() only when that is Pending
Select(leftReady, rightReady) ==
    IF leftReady THEN "Left" ELSE IF rightReady THEN "Right" ELSE "Pending"

(***************************************************************************)
(* backoff and reconnect (node.rs 561-617).  pc = "connect" is the run     *)
(* called by Connection::connect, pc = "reconnect" the run called by       *)
(* Connection::run.                                                        *)
(***************************************************************************)
InBackoff == pc \in {"connect", "reconnect"}

\* a reconnect that starts from zeroed statistics
ConnectOkResetsStats ==
    /\ InBackoff
    /\ conns < lim.conns
    /\ attempts' = Append(attempts, "ok")
    /\ header' = ConnectRequest
    /\ pc' = "run"
    /\ sock' = "up"
    /\ conns' = conns + 1
    /\ wire' = IF resume
               THEN Append(wire, [conn |-> conns + 1, msg |-> EventBuffer])
               ELSE wire
    /\ stats' = ZeroStats
    /\ UNCHANGED <<seconds, waits, result, resume, queue, txClosed, accepted,
                   calls, lastSend, cfgVars, call, ctl, players, lock, cur, received,
                   forwarded, subOpen, rpc, seen, reads>>
    /\ UNCHANGED <<backlog, ownVars>>

\* a reconnect that sends the directive on the first socket only
ConnectOkDirectiveOnce ==
    /\ InBackoff
    /\ conns < lim.conns
    /\ attempts' = Append(attempts, "ok")
    /\ header' = ConnectRequest
    /\ pc' = "run"
    /\ sock' = "up"
    /\ conns' = conns + 1
    /\ wire' = IF resume /\ conns = 0
               THEN Append(wire, [conn |-> conns + 1, msg |-> EventBuffer])
               ELSE wire
    /\ UNCHANGED <<seconds, waits, result, resume, queue, txClosed, accepted,
                   calls, lastSend, cfgVars, call, ctl,
                   routerVars>>
    /\ UNCHANGED <<backlog, ownVars>>

\* connect_async returned Ok; reconnect sends the event-buffer directive
\* when a resume policy is configured
ConnectOk ==
    /\ InBackoff
    /\ conns < lim.conns
    /\ attempts' = Append(attempts, "ok")
    /\ header' = ConnectRequest
    /\ pc' = "run"
    /\ sock' = "up"
    /\ conns' = conns + 1
    /\ wire' = IF resume
               THEN Append(wire, [conn |-> conns + 1, msg |-> EventBuffer])
               ELSE wire
    /\ UNCHANGED <<seconds, waits, result, resume, queue, txClosed, accepted,
                   calls, lastSend, cfgVars, call, ctl,
                   routerVars>>
    /\ UNCHANGED <<backlog, ownVars>>

\* connect_async returned Ok, but stream.send(msg).await.unwrap() panics
DirectiveFail ==
    /\ InBackoff
    /\ conns < lim.conns
    /\ resume
    /\ attempts' = Append(attempts, "ok")
    /\ header' = ConnectRequest
    /\ End("Panic")
    /\ UNCHANGED <<seconds, waits, resume, conns, wire, txClosed, accepted,
                   calls, lastSend, cfgVars, call, ctl,
                   routerVars>>
    /\ UNCHANGED <<backlog, ownVars>>

\* a backoff that handles HTTP 401 like any other failure
ConnectUnauthorizedRetried ==
    /\ InBackoff
    /\ Len(attempts) < lim.fails
    /\ attempts' = Append(attempts, "401")
    /\ header' = ConnectRequest
    /\ IF seconds > MaxSeconds
       THEN /\ End("Connecting")
            /\ UNCHANGED <<seconds, waits>>
       ELSE /\ waits' = Append(waits, seconds)
            /\ seconds' = seconds * 2
            /\ UNCHANGED <<pc, result, sock, queue>>
    /\ UNCHANGED <<resume, conns, wire, txClosed, accepted, calls, lastSend,
                   cfgVars, call, ctl,
                   routerVars>>
    /\ UNCHANGED <<backlog, ownVars>>

\* connect_async failed with HTTP 401
ConnectUnauthorized ==
    /\ InBackoff
    /\ attempts' = Append(attempts, "401")
    /\ header' = ConnectRequest
    /\ End("Unauthorized")
    /\ UNCHANGED <<seconds, waits, resume, conns, wire, txClosed, accepted,
                   calls, lastSend, cfgVars, call, ctl,
                   routerVars>>
    /\ UNCHANGED <<backlog, ownVars>>

\* a backoff that never gives up
ConnectFailNeverGivesUp ==
    /\ InBackoff
    /\ Len(attempts) < lim.fails
    /\ attempts' = Append(attempts, "fail")
    /\ header' = ConnectRequest
    /\ waits' = Append(waits, seconds)
    /\ seconds' = seconds * 2
    /\ UNCHANGED <<pc, result, sock, queue>>
    /\ UNCHANGED <<resume, conns, wire, txClosed, accepted, calls, lastSend,
                   cfgVars, call, ctl,
                   routerVars>>
    /\ UNCHANGED <<backlog, ownVars>>

\* a backoff that gives up when seconds >= 64
ConnectFailAtCeiling ==
    /\ InBackoff
    /\ Len(attempts) < lim.fails
    /\ attempts' = Append(attempts, "fail")
    /\ header' = ConnectRequest
    /\ IF seconds >= MaxSeconds
       THEN /\ End("Connecting")
            /\ UNCHANGED <<seconds, waits>>
       ELSE /\ waits' = Append(waits, seconds)
            /\ seconds' = seconds * 2
            /\ UNCHANGED <<pc, result, sock, queue>>
    /\ UNCHANGED <<resume, conns, wire, txClosed, accepted, calls, lastSend,
                   cfgVars, call, ctl,
                   routerVars>>
    /\ UNCHANGED <<backlog, ownVars>>

\* a backoff that sleeps before it looks at the ceiling
ConnectFailSleepFirst ==
    /\ InBackoff
    /\ Len(attempts) < lim.fails
    /\ attempts' = Append(attempts, "fail")
    /\ header' = ConnectRequest
    /\ waits' = Append(waits, seconds)
    /\ IF seconds > MaxSeconds
       THEN /\ End("Connecting")
            /\ UNCHANGED seconds
       ELSE /\ seconds' = seconds * 2
            /\ UNCHANGED <<pc, result, sock, queue>>
    /\ UNCHANGED <<resume, conns, wire, txClosed, accepted, calls, lastSend,
                   cfgVars, call, ctl,
                   routerVars>>
    /\ UNCHANGED <<backlog, ownVars>>

\* connect_async failed with another error: give up when seconds > 64, else
\* sleep for `seconds` and double it
ConnectFail ==
    /\ InBackoff
    /\ Len(attempts) < lim.fails
    /\ attempts' = Append(attempts, "fail")
    /\ header' = ConnectRequest
    /\ IF seconds > MaxSeconds
       THEN /\ End("Connecting")
            /\ UNCHANGED <<seconds, waits>>
       ELSE /\ waits' = Append(waits, seconds)
            /\ seconds' = seconds * 2
            /\ UNCHANGED <<pc, result, sock, queue>>
    /\ UNCHANGED <<resume, conns, wire, txClosed, accepted, calls, lastSend,
                   cfgVars, call, ctl,
                   routerVars>>
    /\ UNCHANGED <<backlog, ownVars>>

(***************************************************************************)
(* Callers (node.rs 318-328).                                              *)
(***************************************************************************)
\* a send that is refused while the worker is reconnecting
SendOnlyWhenOpen(c) ==
    /\ NodeExists
    /\ CanSend
    /\ calls < lim.cmds
    /\ calls' = calls + 1
    /\ IF ChanOpen /\ pc = "run"
       THEN /\ queue' = Append(queue, c)
            /\ accepted' = Append(accepted, c)
            /\ lastSend' = "ok"
       ELSE /\ lastSend' = "err"
            /\ UNCHANGED <<queue, accepted>>
    /\ UNCHANGED <<connVars, wire, txClosed, envVars,
                   routerVars>>
    /\ UNCHANGED <<backlog, ownVars>>

\* Node::send / a raw sender: unbounded_send fails when the queue is closed
Send(c) ==
    /\ NodeExists
    /\ CanSend
    /\ calls < lim.cmds
    /\ calls' = calls + 1
    /\ IF ChanOpen
       THEN /\ queue' = Append(queue, c)
            /\ accepted' = Append(accepted, c)
            /\ lastSend' = "ok"
       ELSE /\ lastSend' = "err"
            /\ UNCHANGED <<queue, accepted>>
    /\ UNCHANGED <<connVars, wire, txClosed, envVars,
                   routerVars>>
    /\ UNCHANGED <<backlog, ownVars>>

\* a holder of a raw sender (Node::sender) closes the queue
CloseChannel ==
    /\ NodeExists
    /\ CanSend
    /\ ~txClosed
    /\ txClosed' = TRUE
    /\ UNCHANGED <<connVars, wire, queue, accepted, calls, lastSend, envVars,
                   routerVars>>
    /\ UNCHANGED <<backlog, ownVars>>

(***************************************************************************)
(* Connection::run (node.rs 431-470).                                      *)
(***************************************************************************)
\* a worker that takes the newest command of the queue
OutgoingNewestFirst ==
    /\ pc = "run"
    /\ Select(backlog > 0, queue /= <<>>) = "Right"
    /\ queue /= <<>>
    /\ sock = "up"
    /\ wire' = Append(wire, [conn |-> conns,
                             msg |-> ToJson(queue[Len(queue)])])
    /\ queue' = SubSeq(queue, 1, Len(queue) - 1)
    /\ UNCHANGED <<connVars, txClosed, accepted, calls, lastSend, envVars,
                   routerVars>>
    /\ UNCHANGED <<backlog, ownVars>>

\* Either::Right(Some(outgoing)): serialise and write the command
Outgoing ==
    /\ pc = "run"
    /\ Select(backlog > 0, queue /= <<>>) = "Right"
    /\ queue /= <<>>
    /\ sock = "up"
    /\ wire' = Append(wire, [conn |-> conns, msg |-> ToJson(Head(queue))])
    /\ queue' = Tail(queue)
    /\ UNCHANGED <<connVars, txClosed, accepted, calls, lastSend, envVars,
                   routerVars>>
    /\ UNCHANGED <<backlog, ownVars>>

\* a worker that answers a refused write by reconnecting
OutgoingSendFailReconnects ==
    /\ pc = "run"
    /\ Select(backlog > 0, queue /= <<>>) = "Right"
    /\ queue /= <<>>
    /\ pc' = "pending"
    /\ sock' = "none"
    /\ queue' = Tail(queue)
    /\ UNCHANGED <<seconds, waits, attempts, result, resume, conns, wire,
                   txClosed, accepted, calls, lastSend, envVars,
                   routerVars>>
    /\ UNCHANGED <<backlog, ownVars>>

\* Either::Right(Some(outgoing)) and connection.send(msg).await.unwrap()
\* panics: the socket refused the frame
OutgoingSendFail ==
    /\ pc = "run"
    /\ Select(backlog > 0, queue /= <<>>) = "Right"
    /\ queue /= <<>>
    /\ End("Panic")
    /\ UNCHANGED <<seconds, waits, attempts, resume, conns, wire, txClosed,
                   accepted, calls, lastSend, envVars,
                   routerVars>>
    /\ UNCHANGED <<backlog, ownVars>>

\* a worker that takes the end of the queue for a failure
QueueClosedIsError ==
    /\ pc = "run"
    /\ Select(backlog > 0, queue = <<>> /\ (txClosed \/ LiveSenders = 0))
          = "Right"
    /\ queue = <<>>
    /\ txClosed \/ LiveSenders = 0
    /\ End("Connecting")
    /\ UNCHANGED <<seconds, waits, attempts, resume, conns, wire, txClosed,
                   accepted, calls, lastSend, envVars,
                   routerVars>>
    /\ UNCHANGED <<backlog, ownVars>>

\* Either::Right(None): the queue is closed and drained
QueueClosed ==
    /\ pc = "run"
    /\ Select(backlog > 0, queue = <<>> /\ (txClosed \/ LiveSenders = 0))
          = "Right"
    /\ queue = <<>>
    /\ txClosed \/ LiveSenders = 0
    /\ End("Ok")
    /\ UNCHANGED <<seconds, waits, attempts, resume, conns, wire, txClosed,
                   accepted, calls, lastSend, envVars,
                   routerVars>>
    /\ UNCHANGED <<backlog, ownVars>>

\* Either::Left(None | Some(Err)): the stream ended, the worker is to
\* reconnect
StreamEnd ==
    /\ pc = "run"
    /\ backlog = 0 \/ sock = "closing"
    /\ pc' = "pending"
    /\ sock' = "none"
    /\ ctl' = <<>>
    /\ backlog' = 0
    /\ UNCHANGED <<seconds, waits, attempts, result, resume, conns, cmdVars,
                   cfgVars, header, call, routerVars, ownVars>>

\* a reconnect that goes on from the wait the last run had reached
ReconnectKeepsSeconds ==
    /\ pc = "pending"
    /\ pc' = "reconnect"
    /\ waits' = <<>>
    /\ attempts' = <<>>
    /\ UNCHANGED <<seconds, result, resume, sock, conns, cmdVars, envVars,
                   routerVars>>
    /\ UNCHANGED <<backlog, ownVars>>

\* a worker that takes the old socket up again without a handshake
ReconnectWithoutHandshake ==
    /\ pc = "pending"
    /\ pc' = "run"
    /\ sock' = "up"
    /\ seconds' = InitialSeconds
    /\ waits' = <<>>
    /\ attempts' = <<>>
    /\ UNCHANGED <<result, resume, conns, cmdVars, envVars, routerVars>>
    /\ UNCHANGED <<backlog, ownVars>>

\* reconnect is called: a new backoff run starts with seconds = 1
Reconnect ==
    /\ pc = "pending"
    /\ pc' = "reconnect"
    /\ seconds' = InitialSeconds
    /\ waits' = <<>>
    /\ attempts' = <<>>
    /\ UNCHANGED <<result, resume, sock, conns, cmdVars, envVars, routerVars>>
    /\ UNCHANGED <<backlog, ownVars>>

\* the sends of control frames that failed
Dropped == {i \in 1..Len(ctl) : ~ctl[i].ok}

\* let _ = connection.send(msg).await for a control frame: the socket takes
\* the frame (ok) or the send fails, and the Result is discarded
SendIgnored(kind, data) ==
    \E ok \in BOOLEAN :
        /\ ok \/ Cardinality(Dropped) < lim.drops
        /\ ctl' = Append(ctl, [conn |-> conns, kind |-> kind, data |-> data,
                               ok |-> ok])

\* incoming, Message::Close: echo a close frame and return Ok(false), which
\* run discards
IncomingClose ==
    /\ pc = "run"
    /\ sock = "up"
    /\ sock' = "closing"
    /\ SendIgnored("Close", None)
    /\ UNCHANGED <<pc, seconds, waits, attempts, result, resume, conns,
                   cmdVars, cfgVars, header, call,
                   routerVars>>
    /\ Taken
    /\ UNCHANGED ownVars

\* the server sends a frame while earlier ones still wait in the socket
Arrive ==
    /\ pc = "run"
    /\ sock = "up"
    /\ backlog < lim.backlog
    /\ backlog' = backlog + 1
    /\ UNCHANGED <<connVars, cmdVars, routerVars, envVars, ownVars>>

\* the connection alone: attempts, their outcomes, and the stream's end
NextBackoff ==
    \/ ConnectOk
    \/ DirectiveFail
    \/ ConnectUnauthorized
    \/ ConnectFail
    \/ StreamEnd
    \/ Reconnect

\* the worker with its callers' commands
NextCmd ==
    \/ NextBackoff
    \/ \E c \in lim.cmdset : Send(c)
    \/ CloseChannel
    \/ Outgoing
    \/ OutgoingSendFail
    \/ QueueClosed
    \/ IncomingClose


(***************************************************************************)
(* Connection::incoming (node.rs 472-532) for text, ping and other frames. *)
(***************************************************************************)
\* a worker that sends whether or not the subscriber listens
ForwardAlways(event) ==
    forwarded' = Append(forwarded, event)

\* a worker that hands the newest event over first
ForwardNewestFirst(event) ==
    forwarded' = IF subOpen THEN <<event>> \o forwarded ELSE forwarded

\* node_to.unbounded_send(event) unless the subscriber is gone
Forward(event) ==
    forwarded' = IF subOpen THEN Append(forwarded, event) ELSE forwarded

\* a worker that hands a text it could not decode to the subscriber
IncomingTextForwardsUndecoded(text) ==
    /\ pc = "run"
    /\ sock = "up"
    /\ Logged([kind |-> "Text", data |-> text])
    /\ LET event == FromJson(text)
       IN  CASE event.variant = "Err" ->
                    /\ Forward(event)
                    /\ UNCHANGED <<pc, players, cur>>
             [] event.variant = "PlayerUpdate" ->
                    /\ players' = ProvidePlayerUpdate(players, event)
                    /\ Forward(event)
                    /\ UNCHANGED <<pc, cur>>
             [] event.variant = "PlayerDestroy" ->
                    /\ players' = PlayersRemove(players, event.guild_id)
                    /\ Forward(event)
                    /\ UNCHANGED <<pc, cur>>
             [] event.variant = "Stats" ->
                    /\ pc' = "stats_lock"
                    /\ cur' = Some(event)
                    /\ UNCHANGED <<players, forwarded>>
             [] OTHER ->
                    /\ Forward(event)
                    /\ UNCHANGED <<pc, players, cur>>
    /\ UNCHANGED <<seconds, waits, attempts, result, resume, sock, conns,
                   cmdVars, stats, lock, subOpen, rpc, seen, reads, envVars>>
    /\ Taken
    /\ UNCHANGED ownVars

\* Message::Text: decode, sync the state, forward.  A Stats event suspends
\* the worker at self.stats.lock().await
IncomingText(text) ==
    /\ pc = "run"
    /\ sock = "up"
    /\ Logged([kind |-> "Text", data |-> text])
    /\ LET event == FromJson(text)
       IN  CASE event.variant = "Err" ->
                    UNCHANGED <<pc, players, cur, forwarded>>
             [] event.variant = "PlayerUpdate" ->
                    /\ players' = ProvidePlayerUpdate(players, event)
                    /\ Forward(event)
                    /\ UNCHANGED <<pc, cur>>
             [] event.variant = "PlayerDestroy" ->
                    /\ players' = PlayersRemove(players, event.guild_id)
                    /\ Forward(event)
                    /\ UNCHANGED <<pc, cur>>
             [] event.variant = "Stats" ->
                    /\ pc' = "stats_lock"
                    /\ cur' = Some(event)
                    /\ UNCHANGED <<players, forwarded>>
             [] OTHER ->
                    /\ Forward(event)
                    /\ UNCHANGED <<pc, players, cur>>
    /\ UNCHANGED <<seconds, waits, attempts, result, resume, sock, conns,
                   cmdVars, stats, lock, subOpen, rpc, seen, reads, envVars>>
    /\ Taken
    /\ UNCHANGED ownVars

\* a worker that writes the statistics without taking the lock
StatsLockSkipped ==
    /\ pc = "stats_lock"
    /\ pc' = "stats_write"
    /\ stats' = CopyPart(stats, CHOOSE e \in cur : TRUE, StatsPart1)
    /\ UNCHANGED <<seconds, waits, attempts, result, resume, sock, conns,
                   cmdVars, players, lock, cur, received, forwarded, subOpen,
                   rpc, seen, reads, envVars>>
    /\ UNCHANGED <<backlog, ownVars>>

\* Connection::stats: the lock is acquired and the assignment begins
StatsLock ==
    /\ pc = "stats_lock"
    /\ lock = "free"
    /\ lock' = "worker"
    /\ pc' = "stats_write"
    /\ stats' = CopyPart(stats, CHOOSE e \in cur : TRUE, StatsPart1)
    /\ UNCHANGED <<seconds, waits, attempts, result, resume, sock, conns,
                   cmdVars, players, cur, received, forwarded, subOpen, rpc,
                   seen, reads, envVars>>
    /\ UNCHANGED <<backlog, ownVars>>

\* a worker that forwards a Stats event before it has stored the whole of it
StatsStoreForwardsFirst ==
    /\ pc = "stats_write"
    /\ stats' = stats
    /\ lock' = "free"
    /\ Forward(CHOOSE e \in cur : TRUE)
    /\ cur' = None
    /\ pc' = "run"
    /\ UNCHANGED <<seconds, waits, attempts, result, resume, sock, conns,
                   cmdVars, players, received, subOpen, rpc, seen, reads, envVars>>
    /\ UNCHANGED <<backlog, ownVars>>

\* Connection::stats: the assignment ends and the guard is dropped; incoming
\* then forwards the event
StatsStore ==
    /\ pc = "stats_write"
    /\ stats' = CopyPart(stats, CHOOSE e \in cur : TRUE, StatsPart2)
    /\ lock' = "free"
    /\ Forward(CHOOSE e \in cur : TRUE)
    /\ cur' = None
    /\ pc' = "run"
    /\ UNCHANGED <<seconds, waits, attempts, result, resume, sock, conns,
                   cmdVars, players, received, subOpen, rpc, seen, reads, envVars>>
    /\ UNCHANGED <<backlog, ownVars>>

\* a worker that answers every ping with an empty pong
IncomingPingEmptyPong(data) ==
    /\ pc = "run"
    /\ sock = "up"
    /\ Logged([kind |-> "Ping", data |-> data])
    /\ SendIgnored("Pong", "")
    /\ UNCHANGED <<connVars, cmdVars, players, stats, lock, cur, forwarded,
                   subOpen, rpc, seen, reads, cfgVars, header, call>>
    /\ Taken
    /\ UNCHANGED ownVars

\* Message::Ping(data): Message::Pong(data) is sent, its failure ignored
IncomingPing(data) ==
    /\ pc = "run"
    /\ sock = "up"
    /\ Logged([kind |-> "Ping", data |-> data])
    /\ SendIgnored("Pong", data)
    /\ UNCHANGED <<connVars, cmdVars, players, stats, lock, cur, forwarded,
                   subOpen, rpc, seen, reads, cfgVars, header, call>>
    /\ Taken
    /\ UNCHANGED ownVars

\* any other frame (a pong, a binary frame)
IncomingOther(kind, data) ==
    /\ pc = "run"
    /\ sock = "up"
    /\ Logged([kind |-> kind, data |-> data])
    /\ UNCHANGED <<connVars, cmdVars, players, stats, lock, cur, forwarded,
                   subOpen, rpc, seen, reads, envVars>>
    /\ Taken
    /\ UNCHANGED ownVars

\* a caller clones its Node
CloneNode ==
    /\ NodeExists
    /\ handles > 0
    /\ handles < lim.handles
    /\ handles' = handles + 1
    /\ UNCHANGED <<connVars, cmdVars, routerVars, envVars, backlog, senders>>

\* a caller drops a Node
DropNode ==
    /\ NodeExists
    /\ handles > 0
    /\ handles' = handles - 1
    /\ UNCHANGED <<connVars, cmdVars, routerVars, envVars, backlog, senders>>

\* Node::sender: a caller takes a raw sender, a clone of NodeRef's
Sender ==
    /\ NodeExists
    /\ handles > 0
    /\ senders < lim.senders
    /\ senders' = senders + 1
    /\ UNCHANGED <<connVars, cmdVars, routerVars, envVars, backlog, handles>>

\* a caller drops a raw sender
DropSender ==
    /\ senders > 0
    /\ senders' = senders - 1
    /\ UNCHANGED <<connVars, cmdVars, routerVars, envVars, backlog, handles>>

\* the caller drops the receiver Node::connect returned
DropSubscriber ==
    /\ NodeExists
    /\ subOpen
    /\ subOpen' = FALSE
    /\ UNCHANGED <<connVars, cmdVars, players, stats, lock, cur, received,
                   forwarded, rpc, seen, reads, envVars>>
    /\ UNCHANGED <<backlog, ownVars>>

(***************************************************************************)
(* Node::stats and Node::penalty (node.rs 331-361): take the lock, read    *)
(* the fields, drop the guard.                                             *)
(***************************************************************************)
ReadLock(r) ==
    /\ NodeExists
    /\ reads < lim.reads
    /\ rpc[r] = "idle"
    /\ lock = "free"
    /\ lock' = r
    /\ reads' = reads + 1
    /\ rpc' = [rpc EXCEPT ![r] = "copy"]
    /\ seen' = [seen EXCEPT ![r] = Some(CopyPart(ZeroStats, stats, StatsPart1))]
    /\ UNCHANGED <<connVars, cmdVars, players, stats, cur, received,
                   forwarded, subOpen, envVars>>
    /\ UNCHANGED <<backlog, ownVars>>

ReadFinish(r) ==
    /\ rpc[r] = "copy"
    /\ lock' = "free"
    /\ rpc' = [rpc EXCEPT ![r] = "idle"]
    /\ seen' = [seen EXCEPT ![r] =
                  Some(CopyPart(CHOOSE v \in seen[r] : TRUE, stats,
                                StatsPart2))]
    /\ UNCHANGED <<connVars, cmdVars, players, stats, cur, received,
                   forwarded, subOpen, reads, envVars>>
    /\ UNCHANGED <<backlog, ownVars>>

\* Node::penalty: take the lock, compute the score from the statistics,
\* drop the guard
CallPenalty ==
    /\ NodeExists
    /\ reads < lim.reads
    /\ lock = "free"
    /\ reads' = reads + 1
    /\ call' = Some([fn |-> "penalty", arg |-> stats, out |-> Penalty(stats)])
    /\ UNCHANGED <<connVars, cmdVars, players, stats, lock, cur, received,
                   forwarded, subOpen, rpc, seen, cfgVars, header, ctl>>
    /\ UNCHANGED <<backlog, ownVars>>

(***************************************************************************)
(* Calls of the accessors and the codecs of model.rs.                      *)
(***************************************************************************)
\* ev.op() for an outgoing event
CallOp(ev) ==
    /\ call' = Some([fn |-> "op", arg |-> ev, out |-> OutgoingOp(ev)])
    /\ UNCHANGED <<connVars, cmdVars, routerVars, cfgVars, header, ctl>>
    /\ UNCHANGED <<backlog, ownVars>>

\* ev.guild_id() for an outgoing event
CallOutgoingGuildId(ev) ==
    /\ call' = Some([fn |-> "guild_id", arg |-> ev,
                     out |-> OutgoingGuildId(ev)])
    /\ UNCHANGED <<connVars, cmdVars, routerVars, cfgVars, header, ctl>>
    /\ UNCHANGED <<backlog, ownVars>>

\* ev.guild_id() for an incoming event
CallIncomingGuildId(ev) ==
    /\ call' = Some([fn |-> "guild_id", arg |-> ev,
                     out |-> IncomingGuildId(ev)])
    /\ UNCHANGED <<connVars, cmdVars, routerVars, cfgVars, header, ctl>>
    /\ UNCHANGED <<backlog, ownVars>>

\* serde_json::from_str(&serde_json::to_string(&ev)) for an outgoing event
CallRoundTrip(ev) ==
    /\ call' = Some([fn |-> "round_trip", arg |-> ev,
                     out |-> OutgoingFromJson(ToJson(ev))])
    /\ UNCHANGED <<connVars, cmdVars, routerVars, cfgVars, header, ctl>>
    /\ UNCHANGED <<backlog, ownVars>>

\* serde_json::from_str::<IncomingEvent>(&text), as incoming calls it
CallFromStr(text) ==
    /\ call' = Some([fn |-> "from_str", arg |-> text, out |-> FromJson(text)])
    /\ UNCHANGED <<connVars, cmdVars, routerVars, cfgVars, header, ctl>>
    /\ UNCHANGED <<backlog, ownVars>>

\* the payloads of ping, pong and binary frames
Payloads == {"p", "q"}

\* the frame kinds incoming takes in its last arm
OtherKinds == {"Pong", "Binary"}

\* the worker with every kind of frame and its subscriber
Next ==
    \/ NextBackoff
    \/ IncomingClose
    \/ \E text \in ServerFrames : IncomingText(text)
    \/ StatsLock
    \/ StatsStore
    \/ \E data \in lim.payloads : IncomingPing(data)
    \/ \E kind \in OtherKinds, data \in lim.payloads :
          IncomingOther(kind, data)
    \/ DropSubscriber

Init ==
    /\ reported = None
    /\ resume_id = None
    /\ InitCommon
    /\ lim = [cmds |-> 0, cmdset |-> {}, conns |-> MaxConns, fails |-> 1,
              frames |-> MaxFrames, reads |-> 0,
              payloads |-> {"p"}, drops |-> 0,
              backlog |-> 0, log |-> TRUE,
              handles |-> 1, senders |-> 0]

Spec == Init /\ [][Next]_vars

\* the worker that receives statistics, with callers that read them
NextStats ==
    \/ ConnectOk
    \/ StreamEnd
    \/ Reconnect
    \/ \E text \in StatsFrames \cup BadFrames : IncomingText(text)
    \/ StatsLock
    \/ StatsStore
    \/ \E r \in Readers : ReadLock(r)
    \/ \E r \in Readers : ReadFinish(r)

InitStats ==
    /\ reported = None
    /\ resume_id = None
    /\ InitCommon
    /\ lim = [cmds |-> 0, cmdset |-> {}, conns |-> MaxConns, fails |-> 0,
              frames |-> MaxFrames, reads |-> MaxReads,
              payloads |-> {"p"}, drops |-> 0,
              backlog |-> 0, log |-> TRUE,
              handles |-> 1, senders |-> 0]

SpecStats == InitStats /\ [][NextStats]_vars

\* the worker with callers that send commands, and a server that may refuse
\* one attempt of every backoff run
InitCmd ==
    /\ reported = None
    /\ resume_id = None
    /\ InitCommon
    /\ lim = [cmds |-> MaxCmds, cmdset |-> CmdInputs, conns |-> MaxConns,
              fails |-> 1, frames |-> 0, reads |-> 0,
              payloads |-> {"p"}, drops |-> 0,
              backlog |-> 0, log |-> TRUE,
              handles |-> 1, senders |-> 0]

SpecCmd == InitCmd /\ [][NextCmd]_vars

\* a backoff run makes at most MaxAttempts attempts
MaxAttempts == 8

\* the connection with a server that may refuse every attempt
InitBackoff ==
    /\ reported = None
    /\ resume_id = None
    /\ InitCommon
    /\ lim = [cmds |-> 0, cmdset |-> {}, conns |-> MaxConns,
              fails |-> MaxAttempts + 1, frames |-> 0, reads |-> 0,
              payloads |-> {"p"}, drops |-> 0,
              backlog |-> 0, log |-> TRUE,
              handles |-> 1, senders |-> 0]

SpecBackoff == InitBackoff /\ [][NextBackoff]_vars

\* the attempts of a backoff run resolve: connect_async returns and the
\* sleep ends
FairSpecBackoff ==
    SpecBackoff /\ WF_vars(ConnectOk \/ DirectiveFail \/ ConnectUnauthorized
                           \/ ConnectFail)

\* the ids a server reports in andesite-connection-id, and the ids a caller
\* configures in Resume
ReportedIds == {None, Some(4)}
ResumeIds == {None, Some(7)}

\* the connection with every resume configuration
InitResume ==
    /\ reported \in ReportedIds
    /\ resume_id \in ResumeIds
    /\ InitCommon
    /\ resume_id /= None => resume
    /\ lim = [cmds |-> 0, cmdset |-> {}, conns |-> MaxConns,
              fails |-> MaxAttempts + 1, frames |-> 0, reads |-> 0,
              payloads |-> {"p"}, drops |-> 0,
              backlog |-> 0, log |-> TRUE,
              handles |-> 1, senders |-> 0]

SpecResume == InitResume /\ [][NextBackoff]_vars

\* the frames the server sends to the worker that also serves callers
WorkerFrames ==
    {f \in PlayerUpdateFrames \cup StatsFrames :
        f["op"] = "playerUpdate" =>
            f["guildId"] = 1 /\ f["state"] = StateA(None)}

\* the whole worker: the connection, its callers' commands, the server's
\* frames and the subscriber
NextWorker ==
    \/ NextCmd
    \/ \E text \in WorkerFrames : IncomingText(text)
    \/ StatsLock
    \/ StatsStore
    \/ \E data \in lim.payloads : IncomingPing(data)
    \/ DropSubscriber

InitWorker ==
    /\ reported = None
    /\ resume_id = None
    /\ InitCommon
    /\ lim = [cmds |-> 1, cmdset |-> {StopNew(1)}, conns |-> MaxConns,
              fails |-> 1, frames |-> MaxFrames, reads |-> 0,
              payloads |-> {"p"}, drops |-> 0,
              backlog |-> 0, log |-> TRUE,
              handles |-> 1, senders |-> 0]

SpecWorker == InitWorker /\ [][NextWorker]_vars

\* the worker that receives statistics, with a caller that asks for the
\* penalty
NextPenalty ==
    \/ ConnectOk
    \/ \E text \in StatsFrames \cup IdleStatsFrames : IncomingText(text)
    \/ StatsLock
    \/ StatsStore
    \/ CallPenalty

InitPenalty ==
    /\ reported = None
    /\ resume_id = None
    /\ InitCommon
    /\ lim = [cmds |-> 0, cmdset |-> {}, conns |-> 1, fails |-> 0,
              frames |-> MaxFrames, reads |-> MaxReads,
              payloads |-> {"p"}, drops |-> 0,
              backlog |-> 0, log |-> TRUE,
              handles |-> 1, senders |-> 0]

SpecPenalty == InitPenalty /\ [][NextPenalty]_vars

\* a caller that applies the accessors and the codecs to events
NextModel ==
    \/ \E ev \in OutgoingLiterals : CallOp(ev)
    \/ \E ev \in OutgoingBuilt : CallOutgoingGuildId(ev)
    \/ \E ev \in IncomingInputs : CallIncomingGuildId(ev)
    \/ \E ev \in OutgoingBuilt : CallRoundTrip(ev)
    \/ \E text \in TextFrames : CallFromStr(text)

InitModel ==
    /\ reported = None
    /\ resume_id = None
    /\ InitCommon
    /\ lim = [cmds |-> 0, cmdset |-> {}, conns |-> 0, fails |-> 0,
              frames |-> 0, reads |-> 0,
              payloads |-> {"p"}, drops |-> 0,
              backlog |-> 0, log |-> TRUE,
              handles |-> 1, senders |-> 0]

SpecModel == InitModel /\ [][NextModel]_vars

\* the worker with pings, pongs and binary frames among the server's frames,
\* and a socket that may refuse one control frame
NextCtl ==
    \/ ConnectOk
    \/ StreamEnd
    \/ Reconnect
    \/ \E c \in lim.cmdset : Send(c)
    \/ IncomingClose
    \/ \E data \in lim.payloads : IncomingPing(data)
    \/ \E kind \in OtherKinds, data \in lim.payloads :
          IncomingOther(kind, data)
    \/ \E text \in WorkerFrames : IncomingText(text)
    \/ StatsLock
    \/ StatsStore

InitCtl ==
    /\ reported = None
    /\ resume_id = None
    /\ InitCommon
    /\ lim = [cmds |-> 1, cmdset |-> {StopNew(1)}, conns |-> MaxConns,
              fails |-> 0, frames |-> MaxFrames + 1, reads |-> 0,
              payloads |-> Payloads, drops |-> 1,
              backlog |-> 0, log |-> TRUE,
              handles |-> 1, senders |-> 0]

SpecCtl == InitCtl /\ [][NextCtl]_vars

\* the worker and a caller, with a server that may refuse every attempt of a
\* backoff run
NextReconnect ==
    \/ NextBackoff
    \/ \E c \in lim.cmdset : Send(c)
    \/ \E text \in WorkerFrames : IncomingText(text)
    \/ StatsLock
    \/ StatsStore

InitReconnect ==
    /\ reported = None
    /\ resume_id = None
    /\ InitCommon
    /\ lim = [cmds |-> 1, cmdset |-> {StopNew(1)}, conns |-> MaxConns,
              fails |-> MaxAttempts + 1, frames |-> MaxFrames, reads |-> 0,
              payloads |-> {"p"}, drops |-> 0,
              backlog |-> 0, log |-> TRUE,
              handles |-> 1, senders |-> 0]

SpecReconnect == InitReconnect /\ [][NextReconnect]_vars

\* the worker on one connection with every kind of event and its subscriber
NextStore ==
    \/ ConnectOk
    \/ \E text \in TextFrames \ BadFrames : IncomingText(text)
    \/ StatsLock
    \/ StatsStore
    \/ DropSubscriber

InitStore ==
    /\ reported = None
    /\ resume_id = None
    /\ InitCommon
    /\ lim = [cmds |-> 0, cmdset |-> {}, conns |-> 1, fails |-> 0,
              frames |-> MaxFrames + 1, reads |-> 0,
              payloads |-> {"p"}, drops |-> 0,
              backlog |-> 0, log |-> TRUE,
              handles |-> 1, senders |-> 0]

SpecStore == InitStore /\ [][NextStore]_vars

\* the worker under load: callers that send commands and a server whose
\* frames, pongs and binary frames the worker ignores, wait in the socket;
\* the frames are not logged, so the server may send without end
NextLoad ==
    \/ ConnectOk
    \/ \E c \in lim.cmdset : Send(c)
    \/ Arrive
    \/ \E kind \in OtherKinds, data \in lim.payloads :
          IncomingOther(kind, data)
    \/ Outgoing

InitLoad ==
    /\ reported = None
    /\ resume_id = None
    /\ InitCommon
    /\ lim = [cmds |-> MaxCmds, cmdset |-> CmdInputs, conns |-> 1,
              fails |-> 0, frames |-> 0, reads |-> 0,
              payloads |-> {"p"}, drops |-> 0,
              backlog |-> MaxBacklog, log |-> FALSE,
              handles |-> 1, senders |-> 0]

SpecLoad == InitLoad /\ [][NextLoad]_vars

\* the worker goes round its loop, and a branch that select can return again
\* and again is returned again and again
FairSpecLoad ==
    /\ SpecLoad
    /\ SF_vars(Outgoing)
    /\ SF_vars(\E kind \in OtherKinds, data \in lim.payloads :
                  IncomingOther(kind, data))

\* the worker with callers that clone and drop their handles and senders
NextHandles ==
    \/ ConnectOk
    \/ ConnectUnauthorized
    \/ StreamEnd
    \/ Reconnect
    \/ \E c \in lim.cmdset : Send(c)
    \/ CloseChannel
    \/ Outgoing
    \/ QueueClosed
    \/ CloneNode
    \/ DropNode
    \/ Sender
    \/ DropSender

InitHandles ==
    /\ reported = None
    /\ resume_id = None
    /\ InitCommon
    /\ lim = [cmds |-> 1, cmdset |-> {StopNew(1)}, conns |-> MaxConns,
              fails |-> 0, frames |-> 0, reads |-> 0,
              payloads |-> {"p"}, drops |-> 0,
              backlog |-> 0, log |-> TRUE,
              handles |-> MaxHandles, senders |-> MaxSenders]

SpecHandles == InitHandles /\ [][NextHandles]_vars

TypeOK ==
    /\ pc \in {"connect", "run", "pending", "reconnect", "stats_lock",
              "stats_write", "done"}
    /\ seconds \in {1, 2, 4, 8, 16, 32, 64, 128}
    /\ result \in {"none", "Ok", "Connecting", "Unauthorized", "Panic"}
    /\ sock \in {"none", "up", "closing"}
    /\ lastSend \in {"none", "ok", "err"}

(***************************************************************************)
(* Properties of the command path and of the backoff.                      *)
(***************************************************************************)
\* the command frames on the wire (the event-buffer directive left out)
WireCmds ==
    LET cmds == SelectSeq(wire, LAMBDA f : f.msg["op"] /= "event-buffer")
    IN  [i \in 1..Len(cmds) |-> cmds[i].msg]

\* the wire form of a sequence of commands
Frames(cs) == [i \in 1..Len(cs) |-> ToJson(cs[i])]

\* C1: the command frames written to the server are, in order, the frames of
\* the first commands accepted by the queue: a command enqueued before
\* another is written before it.
C1_WireFollowsEnqueueOrder ==
    /\ Len(WireCmds) <= Len(accepted)
    /\ WireCmds = SubSeq(Frames(accepted), 1, Len(WireCmds))

\* Play, Stop, Update enqueued in that order reached the wire in that order,
\* with a reconnect between the first and the last write
C1_Witness ==
    /\ Len(WireCmds) = 3
    /\ <<WireCmds[1]["op"], WireCmds[2]["op"], WireCmds[3]["op"]>>
         = <<"play", "stop", "update">>
    /\ \E i, j \in 1..Len(wire) : wire[i].conn /= wire[j].conn

\* C2: no accepted command is lost across a connection failure; unless the
\* reconnect itself failed for good, every accepted command is either still
\* queued or was written exactly once.
C2_NoCommandLost ==
    result \notin {"Connecting", "Unauthorized"}
        => Frames(accepted) = WireCmds \o Frames(queue)

AllFail(as) == \A i \in 1..Len(as) : as[i] = "fail"

\* C3 as stated: after failures 1..6 the waits are 1, 2, 4, 8, 16, 32 and the
\* 7th consecutive failure is the terminal Connecting error.
C3_SeventhFailureIsTerminal ==
    AllFail(attempts) =>
        /\ Len(attempts) <= 7
        /\ Len(attempts) <= 6 =>
              waits = SubSeq(<<1, 2, 4, 8, 16, 32>>, 1, Len(attempts))
        /\ Len(attempts) = 7 =>
              result = "Connecting" /\ waits = <<1, 2, 4, 8, 16, 32>>

\* the waits a backoff run sleeps, in order
Ladder == <<1, 2, 4, 8, 16, 32, 64>>

\* C3 amended: after failures 1..7 the waits are 1, 2, 4, 8, 16, 32, 64 and
\* the run goes on; the 8th consecutive failure is the terminal Connecting
\* error, with no further sleep.
C3_EighthFailureIsTerminal ==
    AllFail(attempts) =>
        /\ Len(attempts) <= 8
        /\ Len(attempts) <= 7 =>
              /\ waits = SubSeq(Ladder, 1, Len(attempts))
              /\ InBackoff
              /\ result = "none"
        /\ Len(attempts) = 8 =>
              /\ waits = Ladder
              /\ pc = "done"
              /\ result = "Connecting"

C3_Witness == AllFail(attempts) /\ Len(attempts) = 8 /\ result = "Connecting"

\* C4: a backoff run never sleeps longer than 64, makes at most MaxAttempts
\* attempts, ends with the Connecting error when all of them fail, and
\* always comes to an end.
C4_BackoffIsBounded ==
    /\ [](/\ \A i \in 1..Len(waits) : waits[i] <= MaxSeconds
          /\ Len(attempts) <= MaxAttempts
          /\ (AllFail(attempts) /\ Len(attempts) = MaxAttempts) =>
                (pc = "done" /\ result = "Connecting"))
    /\ (InBackoff ~> ~InBackoff)

C4_Witness ==
    /\ pc = "done"
    /\ result = "Connecting"
    /\ Len(waits) = 7
    /\ waits[7] = MaxSeconds
    /\ conns = 1

\* C5: an attempt that fails with HTTP 401 is the last of its run: the run
\* ends at once with Unauthorized, without a sleep for that attempt.
C5_UnauthorizedEndsTheRun ==
    \A i \in 1..Len(attempts) :
        attempts[i] = "401" =>
            /\ i = Len(attempts)
            /\ pc = "done"
            /\ result = "Unauthorized"
            /\ Len(waits) = i - 1

\* a 401 on the fourth attempt, after three sleeps
C5_Witness ==
    /\ Len(attempts) = 4
    /\ attempts[4] = "401"
    /\ waits = <<1, 2, 4>>
    /\ result = "Unauthorized"

\* a call of Node::send
SendStep == calls' = calls + 1

\* the call appended one command to the queue
Enqueued ==
    /\ Len(queue') = Len(queue) + 1
    /\ SubSeq(queue', 1, Len(queue)) = queue
    /\ queue'[Len(queue')] \in CmdInputs
    /\ accepted' = Append(accepted, queue'[Len(queue')])

\* C6 as stated: a send succeeds, and enqueues, exactly when the worker is
\* alive.
C6_SendFailsOnlyAfterWorkerEnd ==
    [][SendStep =>
         IF WorkerAlive
         THEN lastSend' = "ok" /\ Enqueued
         ELSE lastSend' = "err" /\ queue' = queue]_vars

\* C6 amended: a send succeeds, and enqueues, exactly when the worker is
\* alive and no holder of a raw sender has closed the queue.
C6_SendFailsOnlyWhenQueueClosed ==
    [][SendStep =>
         IF WorkerAlive /\ ~txClosed
         THEN lastSend' = "ok" /\ Enqueued
         ELSE lastSend' = "err" /\ queue' = queue]_vars

\* a send was accepted while the worker was backing off, and a later one
\* failed after the worker had ended
C6_Witness ==
    /\ pc = "done"
    /\ result = "Unauthorized"
    /\ waits = <<1>>
    /\ ~txClosed
    /\ Len(accepted) >= 1
    /\ lastSend = "err"

(***************************************************************************)
(* Properties of the statistics and of the session sync.                   *)
(***************************************************************************)
\* the positions of `received` that hold a text frame decoded to `variant`
Decoded(variant) ==
    {i \in 1..Len(received) :
        /\ received[i].kind = "Text"
        /\ FromJson(received[i].data).variant = variant}

\* the Stats events decoded so far
DecodedStats == {FromJson(received[i].data) : i \in Decoded("Stats")}

\* the most recent of them, or the zeroed initial value
LastStats ==
    IF Decoded("Stats") = {} THEN ZeroStats
    ELSE FromJson(received[CHOOSE i \in Decoded("Stats") :
                              \A j \in Decoded("Stats") : j <= i].data)

StoringStats == pc \in {"stats_lock", "stats_write"}

\* C7: what a completed read of the statistics returned is, in all fields,
\* the zeroed initial value or one Stats event decoded before; and the
\* statistics change only in steps of the worker that stores a Stats event.
C7_ReadersSeeWholeSnapshots ==
    /\ [](\A r \in Readers :
            rpc[r] = "idle" => seen[r] \subseteq {ZeroStats} \cup DecodedStats)
    /\ [][stats' /= stats => StoringStats]_vars

\* a reader is in the middle of its copy while the worker waits for the lock
\* to store a second Stats event, and the other reader has seen the first
C7_Witness ==
    /\ pc = "stats_lock"
    /\ lock = "r1"
    /\ rpc["r1"] = "copy"
    /\ rpc["r2"] = "idle"
    /\ seen["r2"] /= None
    /\ seen["r2"] /= {ZeroStats}
    /\ cur /= seen["r2"]

\* C8: unless the worker is storing a Stats event, the statistics equal the
\* most recent Stats event decoded, or the zeroed initial value.
C8_SnapshotIsLastStats == ~StoringStats => stats = LastStats

\* two Stats events were stored, then the worker reconnected
C8_Witness ==
    /\ Cardinality(Decoded("Stats")) = 2
    /\ stats /= ZeroStats
    /\ pc = "run"
    /\ conns = 2

\* the frame the step read, when the step read a text, ping or other frame
ReadFrame == received'[Len(received')]
ReadsFrame == Len(received') = Len(received) + 1

IsUpdate(f) == f.kind = "Text" /\ FromJson(f.data).variant = "PlayerUpdate"
IsDestroyedUpdate(f) ==
    IsUpdate(f) /\ FromJson(f.data).state.destroyed = Some(TRUE)

\* C9: handling a PlayerUpdate marked destroyed leaves the session store as
\* it is and forwards the event like any other (to a subscriber that still
\* listens).
C9_DestroyedUpdateLeavesStore ==
    [][(ReadsFrame /\ IsDestroyedUpdate(ReadFrame)) =>
          /\ players' = players
          /\ forwarded' = IF subOpen
                          THEN Append(forwarded, FromJson(ReadFrame.data))
                          ELSE forwarded]_vars

\* a destroyed update for a session that does not exist was handled: no
\* entry was created, and the event was forwarded
C9_Witness ==
    /\ Len(received) = 1
    /\ IsDestroyedUpdate(received[1])
    /\ players[FromJson(received[1].data).guild_id] = None
    /\ forwarded = <<FromJson(received[1].data)>>

\* C10: applying a PlayerUpdate a second time changes nothing: for every
\* store the worker reaches and every update, and in every step that handles
\* the update handled just before.
C10_SyncIsIdempotent ==
    /\ [](\A text \in PlayerUpdateFrames :
            LET u == FromJson(text)
                once == ProvidePlayerUpdate(players, u)
            IN  ProvidePlayerUpdate(once, u) = once)
    /\ [][(/\ ReadsFrame
           /\ Len(received) >= 1
           /\ IsUpdate(ReadFrame)
           /\ ReadFrame = received[Len(received)]) => players' = players]_vars

\* the same update, not marked destroyed, was handled twice in a row
C10_Witness ==
    /\ Len(received) = 2
    /\ received[1] = received[2]
    /\ IsUpdate(received[1])
    /\ ~IsDestroyedUpdate(received[1])
    /\ players[FromJson(received[1].data).guild_id] /= None

(***************************************************************************)
(* Properties of the event path.                                           *)
(***************************************************************************)
\* the events decoded from the text frames read so far, in order
DecodedEvents ==
    LET texts == SelectSeq(received,
                     LAMBDA f : /\ f.kind = "Text"
                                /\ FromJson(f.data).variant /= "Err")
    IN  [i \in 1..Len(texts) |-> FromJson(texts[i].data)]

\* those of them the worker has finished handling: a Stats event is handed
\* over after it has been stored
Handled ==
    IF StoringStats
    THEN SubSeq(DecodedEvents, 1, Len(DecodedEvents) - 1)
    ELSE DecodedEvents

\* C11: the events handed to the subscriber channel are, in order and
\* unaltered, the events decoded from the frames received: all of them while
\* the subscriber listens, and the first of them once it has gone; this
\* holds across reconnects.
C11_ForwardedInReceiveOrder ==
    /\ Len(forwarded) <= Len(Handled)
    /\ forwarded = SubSeq(Handled, 1, Len(forwarded))
    /\ subOpen => forwarded = Handled

\* two different events, the second a Stats event, were forwarded in the
\* order received, and the worker has reconnected
C11_Witness ==
    /\ conns = 2
    /\ pc = "run"
    /\ subOpen
    /\ Len(forwarded) = 2
    /\ forwarded[1].variant = "PlayerUpdate"
    /\ forwarded[2].variant = "Stats"

(***************************************************************************)
(* Properties of the accessors and the codecs.                             *)
(***************************************************************************)
\* C12: op() of an outgoing event is the opcode of its variant, whatever
\* its fields hold.
C12_OpIsFunctionOfVariant ==
    \A c \in call : c.fn = "op" => c.out = c.arg.variant

\* C13: guild_id() is the guild id stored in the payload, for every
\* outgoing event and every incoming event but Stats; for Stats it is the
\* default id.
C13_GuildIdIsPayloadId ==
    \A c \in call :
        c.fn = "guild_id" =>
            c.out = IF c.arg.variant = "Stats"
                    THEN GuildIdDefault
                    ELSE c.arg.guild_id

\* guild_id() was called on a Stats event
C13_Witness ==
    \E c \in call :
        c.fn = "guild_id" /\ c.arg.variant = "Stats" /\ c.out = GuildIdDefault

\* the variant a well-formed frame names: by its opcode, and for lifecycle
\* events by its type
VariantNamed(o) ==
    CASE o["op"] = "playerUpdate" -> "PlayerUpdate"
      [] o["op"] = "stats" -> "Stats"
      [] o["op"] = "event" ->
            CASE o["type"] = "TrackStartEvent" -> "TrackStart"
              [] o["type"] = "TrackEndEvent" -> "TrackEnd"
              [] o["type"] = "TrackExceptionEvent" -> "TrackException"
              [] o["type"] = "TrackStuckEvent" -> "TrackStuck"
              [] o["type"] = "WebSocketClosedEvent" -> "WebsocketClose"
              [] o["type"] = "PlayerDestroyedEvent" -> "PlayerDestroy"

\* C14: a well-formed text frame decodes to the variant its opcode and type
\* name.
C14_DecodesToNamedVariant ==
    \A c \in call :
        (c.fn = "from_str" /\ c.arg \notin BadFrames) =>
            c.out.variant = VariantNamed(c.arg)

\* C15: decoding the wire text of a constructor-built outgoing event gives
\* the event back.
C15_RoundTripIsIdentity ==
    \A c \in call : c.fn = "round_trip" => c.out = c.arg

(***************************************************************************)
(* Properties of the worker's life cycle.                                  *)
(***************************************************************************)
\* C16: when the queue is closed and drained and the worker ends on it, the
\* result is Ok, and the step writes no frame and makes no connection; a
\* worker that has ended with Ok ended on a closed queue, and nothing is
\* written or connected afterwards.
C16_QueueClosedEndsCleanly ==
    /\ [][(pc = "run" /\ queue = <<>> /\ txClosed /\ pc' = "done") =>
             (result' = "Ok" /\ wire' = wire /\ conns' = conns)]_vars
    /\ [](result = "Ok" => (pc = "done" /\ txClosed /\ sock = "none"))
    /\ [][result = "Ok" =>
             (pc' = "done" /\ result' = "Ok" /\ wire' = wire
              /\ conns' = conns)]_vars

\* the worker wrote two commands, the queue was closed, and the worker ended
C16_Witness ==
    /\ pc = "done"
    /\ result = "Ok"
    /\ Len(WireCmds) = 2
    /\ Len(accepted) = 2

\* C17: a worker that has ended ended cleanly on a closed queue or with the
\* error of a connection attempt; nothing else ends it.
C17_WorkerEndsOnlyOnCloseOrConnectError ==
    (NodeExists /\ pc = "done") =>
        \/ result = "Ok" /\ txClosed
        \/ result \in {"Unauthorized", "Connecting"}

(***************************************************************************)
(* Properties of the connection id.                                        *)
(***************************************************************************)
\* C18: the node's connection id is the id the server reported plus one, or
\* zero; and with a resume policy the handshake of a reconnect carries it
\* in the resume-id header.
C18_ResumeHeaderIsConnectionId ==
    /\ reported = None => connection_id = 0
    /\ \A id \in reported : connection_id = id + 1
    /\ (resume /\ conns >= 2) => header = Some(connection_id)

(***************************************************************************)
(* Properties of the penalty.                                              *)
(***************************************************************************)
\* the host is idle: no system load, and no or all-zero frame statistics
IdleHost(s) ==
    /\ s.cpu.system_load = 0
    /\ \A f \in s.frames : f.deficit = 0 /\ f.nulled = 0

WorkerState ==
    CASE pc \in {"connect", "reconnect"} -> "Connecting"
      [] pc \in {"run", "stats_lock", "stats_write"} -> "Open"
      [] pc = "pending" -> "ReconnectPending"
      [] pc = "done" -> "Closed"

\* the edges between different states
WorkerEdges ==
    {<<"Connecting", "Open">>, <<"Open", "ReconnectPending">>,
     <<"ReconnectPending", "Connecting">>, <<"Connecting", "Closed">>,
     <<"Open", "Closed">>, <<"ReconnectPending", "Closed">>}

\* C20: the worker's state changes along Connecting -> Open, Open ->
\* ReconnectPending, ReconnectPending -> Connecting and the edges into
\* Closed only; a Closed worker stays Closed, reads no frame, writes no
\* frame and takes no command from the queue.
C20_StatesFollowTheEdges ==
    /\ [][WorkerState' /= WorkerState =>
             <<WorkerState, WorkerState'>> \in WorkerEdges]_vars
    /\ [][WorkerState = "Closed" =>
             /\ WorkerState' = "Closed"
             /\ received' = received
             /\ forwarded' = forwarded
             /\ wire' = wire
             /\ queue' = queue
             /\ conns' = conns]_vars

\* the worker went round the cycle once, read a frame, and ended on the
\* closed queue of its second connection
C20_Witness ==
    /\ WorkerState = "Closed"
    /\ result = "Ok"
    /\ conns = 2
    /\ Len(received) >= 1

(***************************************************************************)
(* Properties of the frame kinds and of the reconnection.                  *)
(***************************************************************************)
\* the worker has read a Close frame from the socket it still holds
CloseReceived == pc = "run" /\ sock = "closing"

\* C21: once the worker has read a Close frame (and tried to echo it), its
\* next move is to ReconnectPending: it neither ends nor takes a queued
\* command for the closed socket first.
C21_CloseLeadsToReconnect ==
    [][CloseReceived /\ (pc' /= pc \/ queue' /= queue \/ wire' /= wire)
          /\ ~SendStep
       => pc' = "pending" /\ queue' = queue /\ wire' = wire]_vars

\* the frame read in this step is a ping, a pong or a binary frame
ReadsControl == ReadsFrame /\ ReadFrame.kind \in {"Ping"} \cup OtherKinds

\* C22: a Ping is answered with one Pong of the same payload, whether or not
\* the socket takes it; a Pong or a binary frame is answered with nothing;
\* in each case the worker stays Open and the session store, the statistics,
\* the outgoing queue and the subscriber channel are as before.
C22_PingIsAnsweredOthersIgnored ==
    [][ReadsControl =>
          /\ UNCHANGED <<pc, sock, result, conns, players, stats, lock, queue,
                         txClosed, wire, forwarded, subOpen>>
          /\ IF ReadFrame.kind = "Ping"
             THEN /\ Len(ctl') = Len(ctl) + 1
                  /\ SubSeq(ctl', 1, Len(ctl)) = ctl
                  /\ ctl'[Len(ctl')].kind = "Pong"
                  /\ ctl'[Len(ctl')].data = ReadFrame.data
                  /\ ctl'[Len(ctl')].conn = conns
             ELSE ctl' = ctl]_vars

\* the worker is Open after two pings of different payloads, the pong of one
\* of them refused by the socket, and a pong frame, while a command waits in
\* the queue
C22_Witness ==
    /\ pc = "run"
    /\ sock = "up"
    /\ Len(ctl) = 2
    /\ ctl[1].data /= ctl[2].data
    /\ Dropped /= {}
    /\ \E i \in 1..Len(received) : received[i].kind = "Pong"
    /\ queue /= <<>>

\* the outcome of the attempt made in this step
Attempted(outcome) ==
    /\ Len(attempts') = Len(attempts) + 1
    /\ attempts'[Len(attempts')] = outcome

ReadsUndecodable ==
    /\ ReadsFrame
    /\ ReadFrame.kind = "Text"
    /\ FromJson(ReadFrame.data).variant = "Err"

\* C24: a text frame that does not decode as an IncomingEvent changes
\* nothing: the worker stays Open on its socket and does not end, the
\* session store and the statistics are as before, and nothing is handed to
\* the subscriber.
C24_UndecodableTextIsDropped ==
    [][ReadsUndecodable =>
          UNCHANGED <<pc, sock, result, conns, players, stats, lock, cur,
                      forwarded, subOpen, queue, wire, ctl>>]_vars

\* the worker has dropped a text it could not decode and has then handled
\* and forwarded the next event, which left a session in the store
C24_Witness ==
    /\ pc = "run"
    /\ Len(received) = 2
    /\ received[1].kind = "Text"
    /\ FromJson(received[1].data).variant = "Err"
    /\ forwarded = <<FromJson(received[2].data)>>
    /\ \E g \in Guilds : players[g] /= None

\* the cached fields of player p are those of the state of update u
CachedFrom(p, u) ==
    /\ p.time = u.state.time
    /\ p.position = u.state.position
    /\ p.paused = u.state.paused
    /\ p.volume = u.state.volume
    /\ p.filters = u.state.filters

\* the frames received so far that carry a PlayerUpdate, not marked
\* destroyed, for session g
AppliedUpdates(g) ==
    {i \in 1..Len(received) :
        /\ IsUpdate(received[i])
        /\ ~IsDestroyedUpdate(received[i])
        /\ FromJson(received[i].data).guild_id = g}

\* the last of them
LastApplied(g) ==
    FromJson(received[CHOOSE i \in AppliedUpdates(g) :
                         \A j \in AppliedUpdates(g) : j <= i].data)

\* C25: handling a PlayerUpdate not marked destroyed for session g leaves an
\* entry for g, bound to this node, whose time, position, paused flag,
\* volume and filters are the update's, and leaves every other entry as it
\* was; hence every session in the store caches the fields of the last such
\* update handled for it.
C25_SessionCachesLastUpdate ==
    /\ [](\A g \in Guilds :
            players[g] /= None =>
                /\ AppliedUpdates(g) /= {}
                /\ CachedFrom(CHOOSE p \in players[g] : TRUE, LastApplied(g)))
    /\ [][(ReadsFrame /\ IsUpdate(ReadFrame)
              /\ ~IsDestroyedUpdate(ReadFrame)) =>
             LET u == FromJson(ReadFrame.data)
             IN  /\ players'[u.guild_id] /= None
                 /\ \A p \in players'[u.guild_id] :
                       /\ CachedFrom(p, u)
                       /\ p.guild_id = u.guild_id
                       /\ p.node = "this"
                 /\ \A g \in Guilds \ {u.guild_id} :
                       players'[g] = players[g]]_vars

\* two sessions are cached, the second created by an update that differs
\* from the defaults of a new player in its volume and its filters
C25_Witness ==
    /\ \A g \in Guilds : players[g] /= None
    /\ Len(received) = 2
    /\ \E p \in players[FromJson(received[2].data).guild_id] :
          /\ p.volume /= PlayerNew(p.guild_id).volume
          /\ p.filters /= FiltersNone

\* the event decoded from the text frame read in this step
ReadsEvent ==
    /\ ReadsFrame
    /\ ReadFrame.kind = "Text"
    /\ FromJson(ReadFrame.data).variant /= "Err"

ReadEvent == FromJson(ReadFrame.data)

\* C26: handling a PlayerDestroy for session g leaves no entry for g and
\* every other entry as it was; handling an event that is no PlayerUpdate,
\* PlayerDestroy or Stats leaves the session store and the statistics as
\* they were.
C26_DestroyRemovesOthersUntouched ==
    [][ReadsEvent =>
          /\ ReadEvent.variant = "PlayerDestroy" =>
                /\ players'[ReadEvent.guild_id] = None
                /\ \A g \in Guilds \ {ReadEvent.guild_id} :
                      players'[g] = players[g]
          /\ ReadEvent.variant \notin {"PlayerUpdate", "PlayerDestroy",
                                       "Stats"} =>
                UNCHANGED <<players, stats, lock, cur, pc>>]_vars

\* after updates for two sessions a PlayerDestroy has removed the first of
\* them and left the second
C26_Witness ==
    /\ Len(received) = 3
    /\ FromJson(received[3].data).variant = "PlayerDestroy"
    /\ players[FromJson(received[3].data).guild_id] = None
    /\ AppliedUpdates(FromJson(received[3].data).guild_id) /= {}
    /\ \E g \in Guilds : players[g] /= None

\* C27: in the step that hands an event to the subscriber channel, the state
\* change of that event is in place: the session caches the fields of a
\* PlayerUpdate not marked destroyed, the session of a PlayerDestroy is gone,
\* and the statistics are those of a Stats event, fully written and
\* unlocked.
C27_SyncPrecedesForward ==
    [][forwarded' /= forwarded =>
          LET event == forwarded'[Len(forwarded')]
          IN  /\ forwarded' = Append(forwarded, event)
              /\ (event.variant = "PlayerUpdate"
                    /\ event.state.destroyed /= Some(TRUE)) =>
                    /\ players'[event.guild_id] /= None
                    /\ \A p \in players'[event.guild_id] :
                          CachedFrom(p, event)
              /\ event.variant = "PlayerDestroy" =>
                    players'[event.guild_id] = None
              /\ event.variant = "Stats" =>
                    stats' = event /\ lock' = "free"]_vars

\* an update, the PlayerDestroy of its session and a Stats event have been
\* forwarded: the session is gone and the statistics are the event's
C27_Witness ==
    /\ Len(forwarded) = 3
    /\ forwarded[1].variant = "PlayerUpdate"
    /\ forwarded[2].variant = "PlayerDestroy"
    /\ forwarded[2].guild_id = forwarded[1].guild_id
    /\ forwarded[3].variant = "Stats"
    /\ stats = forwarded[3]
    /\ players[forwarded[2].guild_id] = None

\* C28: once the subscriber has dropped its receiver, a decoded event is not
\* sent, but its state sync is applied as before and the worker stays in
\* its loop: an update is cached, a destroyed session is removed, the
\* statistics are stored, and nothing ends the worker.
C28_ForwardingIsBestEffort ==
    [][~subOpen =>
          /\ forwarded' = forwarded
          /\ result' = result
          /\ subOpen' = subOpen
          /\ ReadsEvent =>
                /\ sock' = sock
                /\ pc' = IF ReadEvent.variant = "Stats"
                         THEN "stats_lock" ELSE "run"
                /\ (ReadEvent.variant = "PlayerUpdate"
                      /\ ReadEvent.state.destroyed /= Some(TRUE)) =>
                      /\ players'[ReadEvent.guild_id] /= None
                      /\ \A p \in players'[ReadEvent.guild_id] :
                            CachedFrom(p, ReadEvent)
                /\ ReadEvent.variant = "PlayerDestroy" =>
                      players'[ReadEvent.guild_id] = None
          /\ (pc = "stats_write" /\ pc' /= pc) =>
                pc' = "run" /\ cur' = None /\ stats' \in cur]_vars

\* one event was forwarded before the subscriber went away; after that an
\* update has created a session and a Stats event has been stored, and
\* neither was sent
C28_Witness ==
    /\ ~subOpen
    /\ pc = "run"
    /\ Len(forwarded) = 1
    /\ Len(received) = 3
    /\ IsUpdate(received[2])
    /\ AppliedUpdates(FromJson(received[2].data).guild_id) = {2}
    /\ \E p \in players[FromJson(received[2].data).guild_id] :
          CachedFrom(p, FromJson(received[2].data))
    /\ FromJson(received[3].data).variant = "Stats"
    /\ stats = FromJson(received[3].data)

(***************************************************************************)
(* Properties of the writes to the socket.                                 *)
(***************************************************************************)
\* the text frames written to connection c, in order
WireOf(c) == SelectSeq(wire, LAMBDA f : f.conn = c)

\* C29: with a resume policy, the first text frame written to every socket
\* the worker has held, the first one and every later one, is the
\* event-buffer directive with the configured timeout, ahead of any command;
\* without a resume policy no event-buffer directive is written at all.
C29_DirectiveOpensEverySocket ==
    /\ resume =>
          \A c \in 1..conns :
              /\ WireOf(c) /= <<>>
              /\ WireOf(c)[1].msg = EventBuffer
              /\ EventBuffer["op"] = "event-buffer"
              /\ EventBuffer["timeout"] = ResumeTimeout
              /\ \A i \in 2..Len(WireOf(c)) : WireOf(c)[i].msg /= EventBuffer
    /\ ~resume =>
          \A i \in 1..Len(wire) : wire[i].msg["op"] /= "event-buffer"

\* with a resume policy, the first socket carried the directive alone and
\* the second carries the directive and, after it, the last command accepted
C29_Witness ==
    /\ resume
    /\ conns = 2
    /\ Len(WireOf(2)) = 2
    /\ WireOf(2)[2].msg = ToJson(accepted[Len(accepted)])
    /\ WireOf(1) = <<[conn |-> 1, msg |-> EventBuffer]>>

\* the worker takes a command off the queue and the socket refuses it
WriteRefused ==
    /\ pc = "run"
    /\ queue /= <<>>
    /\ ~SendStep
    /\ queue' /= queue
    /\ wire' = wire

\* C30: when the write of a dequeued command fails, the worker stops there:
\* it does not go to ReconnectPending, makes no further connection attempt
\* and writes nothing more, and the command is neither written later nor
\* left on the queue.
C30_WriteFailureStopsWorker ==
    [][/\ WriteRefused =>
             /\ pc' = "done"
             /\ result' = "Panic"
             /\ queue' = <<>>
             /\ UNCHANGED <<conns, attempts>>
       /\ (pc = "done" /\ result = "Panic") =>
             UNCHANGED <<pc, result, wire, queue, conns, attempts>>]_vars

\* the write of a command failed on the second socket: the worker has
\* stopped, the command is on no socket and a later send has failed
C30_Witness ==
    /\ pc = "done"
    /\ result = "Panic"
    /\ conns = 2
    /\ attempts = <<"ok">>
    /\ Len(accepted) > Len(WireCmds)
    /\ lastSend = "err"

(***************************************************************************)
(* Properties of the loop's scheduling and of the backoff runs.            *)
(***************************************************************************)
\* C31: in the Open loop every accepted command is eventually written, even
\* while inbound frames keep waiting in the socket, and a waiting inbound
\* frame is eventually taken, even while commands keep being queued.
C31_NeitherSideStarves ==
    /\ \A n \in 1..MaxCmds :
          (Len(accepted) >= n) ~> (Len(WireCmds) >= n)
    /\ (backlog = MaxBacklog) ~> (backlog < MaxBacklog)

\* a backoff run ends in this step
RunEnds == InBackoff /\ ~InBackoff'

\* C32: a backoff run ends only with an attempt that connected or with one
\* that was refused for authorization; every other refusal is retried.
C32_RetriedIndefinitely ==
    [][/\ RunEnds => Attempted("ok") \/ Attempted("401")
       /\ Attempted("fail") => InBackoff']_vars

\* C32 amended: a backoff run ends with an attempt that connected, with one
\* refused for authorization (Unauthorized), or with the eighth refusal in a
\* row for another reason (Connecting); the first seven such refusals are
\* retried after the wait.
C32_RetriedUpToTheCeiling ==
    [][/\ RunEnds =>
             \/ Attempted("ok")
             \/ Attempted("401") /\ result' = "Unauthorized"
             \/ /\ Attempted("fail")
                /\ Len(attempts') = MaxAttempts
                /\ result' = "Connecting"
       /\ Attempted("fail") =>
             IF Len(attempts') < MaxAttempts
             THEN InBackoff' /\ waits' = Append(waits, seconds)
             ELSE pc' = "done" /\ result' = "Connecting" /\ waits' = waits]_vars

\* the first connect was refused eight times, slept the seven waits of the
\* ladder and ended with Connecting
C32_Witness ==
    /\ pc = "done"
    /\ result = "Connecting"
    /\ conns = 0
    /\ Len(attempts) = MaxAttempts
    /\ waits = Ladder

\* a backoff run starts in this step or is about to make its first attempt
RunStarts == InBackoff' /\ (~InBackoff \/ attempts' = <<>>)

\* C33: the run of the first connect and the run of every reconnect follow
\* one policy: a run starts with no wait slept and with its wait at one
\* unit, whatever an earlier run had reached, its first attempt is made
\* before any wait, and the waits it sleeps are 1, 2, 4, ... in this order.
C33_EveryRunStartsAfresh ==
    /\ [](InBackoff =>
            /\ Len(waits) <= Len(Ladder)
            /\ waits = SubSeq(Ladder, 1, Len(waits))
            /\ attempts = [i \in 1..Len(waits) |-> "fail"]
            /\ seconds = IF waits = <<>> THEN InitialSeconds
                          ELSE 2 * waits[Len(waits)])
    /\ [][RunStarts =>
             /\ seconds' = InitialSeconds
             /\ waits' = <<>>
             /\ attempts' = <<>>]_vars

\* the worker has lost its first socket; the run of the reconnect has made
\* one attempt, which failed, and has slept one unit
C33_Witness ==
    /\ pc = "reconnect"
    /\ conns = 1
    /\ attempts = <<"fail">>
    /\ waits = <<InitialSeconds>>
    /\ seconds = 2 * InitialSeconds

Destroys(g) ==
    {i \in 1..Len(received) :
        /\ received[i].kind = "Text"
        /\ FromJson(received[i].data).variant = "PlayerDestroy"
        /\ FromJson(received[i].data).guild_id = g}

\* the events that change the state of session g
StateChanges(g) == AppliedUpdates(g) \cup Destroys(g)

\* the last event that changed the state of session g was a PlayerDestroy
LastWasDestroy(g) ==
    \E i \in Destroys(g) : \A j \in StateChanges(g) : j <= i

\* C35: a PlayerUpdate not marked destroyed that is handled after a
\* PlayerDestroy for the same session leaves an entry for it again, bound to
\* this node and holding the update's values; and a session that had
\* state-changing events is absent from the store exactly if the last of
\* them was a PlayerDestroy.
C35_DestroyedSessionComesBack ==
    /\ [](\A g \in Guilds :
            StateChanges(g) /= {} =>
                (players[g] = None <=> LastWasDestroy(g)))
    /\ [][(/\ ReadsFrame
           /\ IsUpdate(ReadFrame)
           /\ ~IsDestroyedUpdate(ReadFrame)
           /\ Destroys(FromJson(ReadFrame.data).guild_id) /= {}) =>
             LET u == FromJson(ReadFrame.data)
             IN  /\ players'[u.guild_id] /= None
                 /\ \A p \in players'[u.guild_id] :
                       /\ CachedFrom(p, u)
                       /\ p.guild_id = u.guild_id
                       /\ p.node = "this"]_vars

\* a session was created, removed by a PlayerDestroy, and is back in the
\* store with the values of an update handled after that
C35_Witness ==
    /\ Len(received) = 3
    /\ \E g \in Guilds :
          /\ AppliedUpdates(g) = {1, 3}
          /\ Destroys(g) = {2}
          /\ \E p \in players[g] : CachedFrom(p, FromJson(received[3].data))

====
